---- MODULE Spec2Model ----
(***************************************************************************)
(* Model of the SCRAM risk-analysis model builder (RiskAnalysis in         *)
(* src/src/risk_analysis.cc): the index maps of gates, primary events and  *)
(* parameters, the resolution of forward references, the end-of-input      *)
(* defaults and the first-layer validation.                                *)
(*                                                                         *)
(* A name is a sequence of characters, so that boost::trim and             *)
(* boost::to_lower are computed, not assumed.  An entity (Gate,            *)
(* BasicEvent, HouseEvent) is a heap object addressed by the handle        *)
(* <<kind, id>>; the maps of RiskAnalysis map an id to a handle.           *)
(***************************************************************************)
EXTENDS Integers, Sequences, FiniteSets, TLC

VARIABLES
  gates_,              \* id -> handle of a defined gate
  tbd_gates_,          \* id -> handle of a gate placeholder
  primary_events_,     \* id -> handle of a defined basic or house event
  basic_events_,       \* id -> handle of a defined basic event
  tbd_basic_events_,   \* id -> handle of a basic-event placeholder
  tbd_house_events_,   \* id -> handle of a house-event placeholder
  tbd_events_,         \* id -> sequence of the gate handles requesting it
  tbd_orig_ids_,       \* id -> original spelling of an untyped reference
  parameters_,         \* name -> parameter object of a defined parameter
  tbd_parameters_,     \* name -> parameter object referenced, not defined
  fault_trees_,        \* id -> set of gate ids of the fault tree
  ccf_groups_,         \* id -> sequence of member handles
  prob_requested_,     \* the flag of RiskAnalysis
  setup_,              \* CCF groups and fault trees configured for analysis, in order
  ftas_,               \* ids of the fault trees analysed, in order
  validated_,          \* fault trees and CCF groups whose Validate() was called
  orphan_primary_events_, \* handles of the primary events gathered as orphans
  report_level_,       \* Logger::report_level_, the verbosity of the log
  settings_,           \* the settings of the run: mission time and ftaType
  mission_time_,       \* the MissionTime object shared by the expressions
  written,             \* the calls that set the mission time, in order
  prob_analyses_,      \* the probability analyses done, in order
  uncertainty_analyses_, \* the uncertainty analyses done, in order
  fta,                 \* a FaultTreeAnalysis: settings, products_, warnings, output
  heap,                \* handle -> object (the fields of the entity)
  error,               \* the exception that left the builder, or NoError
  pc,                  \* position of ProcessInputFiles
  cur,                 \* the element being processed (fault tree, gate, ...)
  last,                \* the last element or reference handed to the builder
  seen,                \* kinds of elements that were handed to the builder
  input                \* the declarations of the input files, when fixed ahead

vars == <<gates_, tbd_gates_, primary_events_, basic_events_,
          tbd_basic_events_, tbd_house_events_, tbd_events_, tbd_orig_ids_,
          parameters_, tbd_parameters_, fault_trees_, ccf_groups_,
          prob_requested_, setup_, ftas_, validated_,
          orphan_primary_events_, report_level_, settings_,
          mission_time_, written, prob_analyses_, uncertainty_analyses_, fta,
          heap, error, pc, cur, last, seen, input>>

-----------------------------------------------------------------------------
(* Strings *)

\* boost::to_lower on one character.
ToLowerChar(ch) ==
  LET upper == <<"A", "B", "C", "D", "E", "F", "G", "H", "I", "J", "K", "L", "M",
                 "N", "O", "P", "Q", "R", "S", "T", "U", "V", "W", "X", "Y", "Z">>
      lower == <<"a", "b", "c", "d", "e", "f", "g", "h", "i", "j", "k", "l", "m",
                 "n", "o", "p", "q", "r", "s", "t", "u", "v", "w", "x", "y", "z">>
  IN  IF \E i \in DOMAIN upper : upper[i] = ch
      THEN lower[CHOOSE i \in DOMAIN upper : upper[i] = ch]
      ELSE ch

\* boost::to_lower: every character folded, length and order kept.
to_lower(s) == [i \in DOMAIN s |-> ToLowerChar(s[i])]

RECURSIVE TrimLeft(_)
TrimLeft(s) == IF s # <<>> /\ Head(s) = " " THEN TrimLeft(Tail(s)) ELSE s

RECURSIVE TrimRight(_)
TrimRight(s) ==
  IF s # <<>> /\ s[Len(s)] = " "
  THEN TrimRight(SubSeq(s, 1, Len(s) - 1))
  ELSE s

\* boost::trim: leading and trailing spaces removed.
trim(s) == TrimRight(TrimLeft(s))

-----------------------------------------------------------------------------
(* Maps (boost::unordered_map, std::map) as functions with a finite domain *)

EmptyMap == <<>>

Count(m, k) == k \in DOMAIN m

\* insert(std::make_pair(k, v)): an existing key keeps its value.
Insert(m, k, v) == IF k \in DOMAIN m THEN m ELSE (k :> v) @@ m

Erase(m, k) == [x \in (DOMAIN m) \ {k} |-> m[x]]

-----------------------------------------------------------------------------
(* Entities *)

NoError == [type |-> "none", what |-> "none", report |-> {}]

ValidationError(what) == [type |-> "ValidationError", what |-> what, report |-> {}]

LogicError(what) == [type |-> "LogicError", what |-> what, report |-> {}]

\* A violation of the structure of a gate met outside the validation layers.
GateStructureError(what) ==
  [type |-> "GateStructureError", what |-> what, report |-> {}]

Handle(kind, id) == <<kind, id>>

KindOf(h) == h[1]

IdOf(h) == h[2]

\* The expression of an event or parameter that has none.
NoExpression == [op |-> "none", name |-> <<>>, args |-> <<>>]

\* A freshly constructed Gate, BasicEvent or HouseEvent: new Gate(id) etc.
NewObject(id) ==
  [orig_id |-> id, type |-> "", vote_number |-> -1, flavor |-> "",
   children |-> EmptyMap, parents |-> EmptyMap,
   expression |-> NoExpression, state |-> FALSE]

-----------------------------------------------------------------------------
(* The RiskAnalysis object as a value, for the operators that compute the  *)
(* effect of a handler.                                                    *)

RA ==
  [gates_ |-> gates_, tbd_gates_ |-> tbd_gates_,
   primary_events_ |-> primary_events_, basic_events_ |-> basic_events_,
   tbd_basic_events_ |-> tbd_basic_events_,
   tbd_house_events_ |-> tbd_house_events_,
   tbd_events_ |-> tbd_events_, tbd_orig_ids_ |-> tbd_orig_ids_,
   parameters_ |-> parameters_, tbd_parameters_ |-> tbd_parameters_,
   fault_trees_ |-> fault_trees_, ccf_groups_ |-> ccf_groups_,
   prob_requested_ |-> prob_requested_, setup_ |-> setup_, ftas_ |-> ftas_,
   validated_ |-> validated_,
   orphan_primary_events_ |-> orphan_primary_events_,
   heap |-> heap, error |-> error]

\* RiskAnalysis::RiskAnalysis: every map empty, prob_requested_(false).
NewRiskAnalysis ==
  [gates_ |-> EmptyMap, tbd_gates_ |-> EmptyMap,
   primary_events_ |-> EmptyMap, basic_events_ |-> EmptyMap,
   tbd_basic_events_ |-> EmptyMap, tbd_house_events_ |-> EmptyMap,
   tbd_events_ |-> EmptyMap, tbd_orig_ids_ |-> EmptyMap,
   parameters_ |-> EmptyMap, tbd_parameters_ |-> EmptyMap,
   fault_trees_ |-> EmptyMap, ccf_groups_ |-> EmptyMap,
   prob_requested_ |-> FALSE, setup_ |-> <<>>, ftas_ |-> <<>>,
   validated_ |-> {}, orphan_primary_events_ |-> {},
   heap |-> EmptyMap, error |-> NoError]

gate_types_ ==
  {"and", "or", "not", "nor", "nand", "xor", "null", "inhibit", "atleast"}

Failed(ra) == ra.error.type # "none"

Throw(ra, err) == [ra EXCEPT !.error = err]

\* Statement sequencing: the rest of a handler is skipped once it has thrown.
Then(ra, Rest(_)) == IF Failed(ra) THEN ra ELSE Rest(ra)

\* new X(id) followed by orig_id(orig_id).
Alloc(ra, h, orig_id) ==
  [ra EXCEPT !.heap = (h :> [NewObject(IdOf(h)) EXCEPT !.orig_id = orig_id]) @@ @]

\* Gate::AddChild: the children of a gate are keyed by the child's id.
AddChild(ra, g, c) ==
  IF Count(ra.heap[g].children, IdOf(c))
  THEN Throw(ra, LogicError("re-insert a child"))
  ELSE [ra EXCEPT !.heap[g].children = Insert(@, IdOf(c), c)]

\* Event::AddParent: the parents of an event are keyed by the gate's id.
AddParent(ra, e, g) ==
  IF Count(ra.heap[e].parents, IdOf(g))
  THEN Throw(ra, LogicError("re-insert a parent"))
  ELSE [ra EXCEPT !.heap[e].parents = Insert(@, IdOf(g), g)]

\* The link of a gate to its child without the link back.
LinkChildOnly(ra, g, e) == AddChild(ra, g, e)

\* (*it)->AddChild(event); event->AddParent(*it);
Link(ra, g, e) ==
  LET LinkParent(r) == AddParent(r, e, g)
  IN  Then(AddChild(ra, g, e), LinkParent)

RECURSIVE LinkAll(_, _, _, _)
\* The loop over the gates that requested an id, from position i on.
LinkAll(ra, requesters, i, e) ==
  IF Failed(ra) \/ i > Len(requesters) THEN ra
  ELSE LinkAll(Link(ra, requesters[i], e), requesters, i + 1, e)

\* UpdateIfLateEvent that leaves the original spelling behind.
UpdateIfLateEventKeepsOrigId(ra, event) ==
  LET id == IdOf(event)
      EraseTbd(r) == [r EXCEPT !.tbd_events_ = Erase(@, id)]
  IN  IF Count(ra.tbd_events_, id)
      THEN Then(LinkAll(ra, ra.tbd_events_[id], 1, event), EraseTbd)
      ELSE ra

\* UpdateIfLateEvent that leaves the requests of the id behind.
UpdateIfLateEventKeepsRequests(ra, event) ==
  IF Count(ra.tbd_events_, IdOf(event))
  THEN LinkAll(ra, ra.tbd_events_[IdOf(event)], 1, event)
  ELSE ra

UpdateIfLateEvent(ra, event) ==
  LET id == IdOf(event)
      EraseTbd(r) == [r EXCEPT !.tbd_events_ = Erase(@, id),
                               !.tbd_orig_ids_ = Erase(@, id)]
  IN  IF Count(ra.tbd_events_, id)
      THEN Then(LinkAll(ra, ra.tbd_events_[id], 1, event), EraseTbd)
      ELSE ra

-----------------------------------------------------------------------------
(* Formulas.  The result of a ProcessFormulaX is the builder value, the    *)
(* child it resolved and whether the child is to be attached now.          *)

Resolved(ra, child) == [ra |-> ra, child |-> child, attach |-> TRUE]

Thrown(ra, what) ==
  [ra |-> Throw(ra, ValidationError(what)), child |-> <<>>, attach |-> FALSE]

\* IsGate that looks at the defined gates only.
IsGateDefinedOnly(ra, id) == Count(ra.gates_, id)

\* gates_.count(id) || tbd_gates_.count(id): the id is taken by a gate.
IsGate(ra, id) == Count(ra.gates_, id) \/ Count(ra.tbd_gates_, id)

\* IsPrimaryEvent that looks at the defined primary events only.
IsPrimaryEventDefinedOnly(ra, id) == Count(ra.primary_events_, id)

\* primary_events_.count(id) || tbd_basic_events_.count(id) ||
\* tbd_house_events_.count(id): the id is taken by a primary event.
IsPrimaryEvent(ra, id) ==
  \/ Count(ra.primary_events_, id)
  \/ Count(ra.tbd_basic_events_, id)
  \/ Count(ra.tbd_house_events_, id)

\* ProcessFormulaEvent that takes every untyped reference as pending.
ProcessFormulaEventAlwaysLate(ra, gate, id, orig_id) ==
  [ra |->
     IF Count(ra.tbd_events_, id)
     THEN [ra EXCEPT !.tbd_events_[id] = Append(@, gate)]
     ELSE [ra EXCEPT !.tbd_events_ = Insert(@, id, <<gate>>),
                     !.tbd_orig_ids_ = Insert(@, id, orig_id)],
   child |-> <<>>, attach |-> FALSE]

\* ProcessFormulaEvent that does not record the spelling of a pending id.
ProcessFormulaEventNoSpelling(ra, gate, id, orig_id) ==
  IF IsPrimaryEvent(ra, id) \/ IsGate(ra, id)
  THEN Resolved(ra, IF Count(ra.primary_events_, id) THEN ra.primary_events_[id]
                    ELSE IF Count(ra.gates_, id) THEN ra.gates_[id]
                    ELSE IF Count(ra.tbd_gates_, id) THEN ra.tbd_gates_[id]
                    ELSE IF Count(ra.tbd_basic_events_, id)
                         THEN ra.tbd_basic_events_[id]
                    ELSE ra.tbd_house_events_[id])
  ELSE [ra |->
          IF Count(ra.tbd_events_, id)
          THEN [ra EXCEPT !.tbd_events_[id] = Append(@, gate)]
          ELSE [ra EXCEPT !.tbd_events_ = Insert(@, id, <<gate>>)],
        child |-> <<>>, attach |-> FALSE]

ProcessFormulaEvent(ra, gate, id, orig_id) ==
  IF Count(ra.primary_events_, id) THEN Resolved(ra, ra.primary_events_[id])
  ELSE IF Count(ra.gates_, id) THEN Resolved(ra, ra.gates_[id])
  ELSE IF Count(ra.tbd_gates_, id) THEN Resolved(ra, ra.tbd_gates_[id])
  ELSE IF Count(ra.tbd_basic_events_, id)
       THEN Resolved(ra, ra.tbd_basic_events_[id])
  ELSE IF Count(ra.tbd_house_events_, id)
       THEN Resolved(ra, ra.tbd_house_events_[id])
  ELSE [ra |->
          IF Count(ra.tbd_events_, id)
          THEN [ra EXCEPT !.tbd_events_[id] = Append(@, gate)]
          ELSE [ra EXCEPT !.tbd_events_ = Insert(@, id, <<gate>>),
                          !.tbd_orig_ids_ = Insert(@, id, orig_id)],
        child |-> <<>>, attach |-> FALSE]

ProcessFormulaBasicEvent(ra, gate, id, orig_id) ==
  IF IsGate(ra, id)
  THEN Thrown(ra, "already assigned to a gate")
  ELSE IF Count(ra.tbd_house_events_, id)
  THEN Thrown(ra, "already used by a house event")
  ELSE IF Count(ra.primary_events_, id)
  THEN IF KindOf(ra.primary_events_[id]) # "basic"
       THEN Thrown(ra, "already assigned to a house event")
       ELSE Resolved(ra, ra.primary_events_[id])
  ELSE IF Count(ra.tbd_basic_events_, id)
  THEN Resolved(ra, ra.tbd_basic_events_[id])
  ELSE LET child == Handle("basic", id)
           r1 == Alloc(ra, child, orig_id)
           r2 == [r1 EXCEPT !.tbd_basic_events_ = Insert(@, id, child)]
       IN  Resolved(UpdateIfLateEvent(r2, child), child)

ProcessFormulaHouseEvent(ra, gate, id, orig_id) ==
  IF IsGate(ra, id)
  THEN Thrown(ra, "already assigned to a gate")
  ELSE IF Count(ra.tbd_basic_events_, id)
  THEN Thrown(ra, "already used by a basic event")
  ELSE IF Count(ra.primary_events_, id)
  THEN IF KindOf(ra.primary_events_[id]) # "house"
       THEN Thrown(ra, "already assigned to a basic event")
       ELSE Resolved(ra, ra.primary_events_[id])
  ELSE IF Count(ra.tbd_house_events_, id)
  THEN Resolved(ra, ra.tbd_house_events_[id])
  ELSE LET child == Handle("house", id)
           r1 == Alloc(ra, child, orig_id)
           r2 == [r1 EXCEPT !.tbd_house_events_ = Insert(@, id, child)]
       IN  Resolved(UpdateIfLateEvent(r2, child), child)

ProcessFormulaGate(ra, gate, id, orig_id) ==
  IF IsPrimaryEvent(ra, id)
  THEN Thrown(ra, "already assigned to a primary event")
  ELSE IF Count(ra.gates_, id) THEN Resolved(ra, ra.gates_[id])
  ELSE IF Count(ra.tbd_gates_, id) THEN Resolved(ra, ra.tbd_gates_[id])
  ELSE LET child == Handle("gate", id)
           r1 == Alloc(ra, child, orig_id)
           r2 == [r1 EXCEPT !.tbd_gates_ = Insert(@, id, child)]
       IN  Resolved(UpdateIfLateEvent(r2, child), child)

\* A child reference of a formula: the element name, the name attribute and
\* the optional type attribute.
Ref(elem, name, type) == [elem |-> elem, name |-> name, type |-> type]

RefId(ref) == to_lower(trim(ref.name))

\* The element name after the override by a type attribute.
RefTag(ref) == IF ref.type # "" THEN ref.type ELSE ref.elem

\* One iteration of the loop of ProcessFormula without the set of the ids
\* named before.
ProcessFormulaChildUnchecked(ra, gate, children_id, ref) ==
  LET orig_id == trim(ref.name)
      id == to_lower(orig_id)
      name == RefTag(ref)
      res == CASE name = "event" -> ProcessFormulaEvent(ra, gate, id, orig_id)
               [] name = "gate" -> ProcessFormulaGate(ra, gate, id, orig_id)
               [] name = "basic-event" ->
                    ProcessFormulaBasicEvent(ra, gate, id, orig_id)
               [] name = "house-event" ->
                    ProcessFormulaHouseEvent(ra, gate, id, orig_id)
  IN  IF Failed(res.ra) \/ ~res.attach THEN res.ra
      ELSE Link(res.ra, gate, res.child)

\* One iteration of the loop of ProcessFormula; children_id holds the ids of
\* the iterations before it.
ProcessFormulaChild(ra, gate, children_id, ref) ==
  LET orig_id == trim(ref.name)
      id == to_lower(orig_id)
      name == RefTag(ref)
      res == CASE name = "event" -> ProcessFormulaEvent(ra, gate, id, orig_id)
               [] name = "gate" -> ProcessFormulaGate(ra, gate, id, orig_id)
               [] name = "basic-event" ->
                    ProcessFormulaBasicEvent(ra, gate, id, orig_id)
               [] name = "house-event" ->
                    ProcessFormulaHouseEvent(ra, gate, id, orig_id)
  IN  IF id \in children_id
      THEN Throw(ra, ValidationError("repeated child"))
      ELSE IF Failed(res.ra) \/ ~res.attach THEN res.ra
      ELSE Link(res.ra, gate, res.child)

RECURSIVE ProcessFormulaFrom(_, _, _, _, _)
ProcessFormulaFrom(ra, gate, events, i, children_id) ==
  IF Failed(ra) \/ i > Len(events) THEN ra
  ELSE ProcessFormulaFrom(
         ProcessFormulaChild(ra, gate, children_id, events[i]),
         gate, events, i + 1, children_id \cup {RefId(events[i])})

ProcessFormula(ra, gate, events) == ProcessFormulaFrom(ra, gate, events, 1, {})

-----------------------------------------------------------------------------
(* Expressions.  An expression element is [op, name, args]: a constant,    *)
(* a parameter reference, the mission time or a deviate over arguments.    *)

Expr(op, name, args) == [op |-> op, name |-> name, args |-> args]

ConstantOps == {"float", "int", "bool"}

DeviateArity ==
  [op \in {"uniform-deviate", "normal-deviate", "gamma-deviate",
           "beta-deviate", "exponential"} |-> 2]
  @@ ("lognormal-deviate" :> 3) @@ ("GLM" :> 4) @@ ("Weibull" :> 4)

\* The parameter branch: the name attribute is looked up as written.
GetParameterExpression(ra, expr_element) ==
  LET name == expr_element.name
      param == Handle("parameter", name)
  IN  IF Count(ra.parameters_, name) \/ Count(ra.tbd_parameters_, name)
      THEN ra
      ELSE [Alloc(ra, param, name) EXCEPT
              !.tbd_parameters_ = Insert(@, name, param)]

RECURSIVE GetExpression(_, _)
RECURSIVE GetExpressions(_, _, _)
\* The arguments of a deviate, in positional order.
GetExpressions(ra, args, i) ==
  IF Failed(ra) \/ i > Len(args) THEN ra
  ELSE GetExpressions(GetExpression(ra, args[i]), args, i + 1)

GetExpression(ra, expr_element) ==
  LET op == expr_element.op
  IN  IF op \in ConstantOps THEN ra
      ELSE IF op = "parameter" THEN GetParameterExpression(ra, expr_element)
      ELSE IF op = "system-mission-time" THEN ra
      ELSE IF op \in DOMAIN DeviateArity /\ Len(expr_element.args) = DeviateArity[op]
           THEN GetExpressions(ra, expr_element.args, 1)
      ELSE IF op = "histogram" THEN GetExpressions(ra, expr_element.args, 1)
      ELSE Throw(ra, ValidationError("unsupported expression"))

\* The handle an expression element evaluates to when it is a parameter.
ParameterOf(ra, name) ==
  IF Count(ra.parameters_, name) THEN ra.parameters_[name]
  ELSE ra.tbd_parameters_[name]

\* Parameter::expression(expr): a parameter takes its expression once.
SetParameterExpression(ra, param, expression) ==
  IF ra.heap[param].expression # NoExpression
  THEN Throw(ra, LogicError("parameter expression is already set"))
  ELSE [ra EXCEPT !.heap[param].expression = expression]

\* The attributes of an element; of these only flavor is read by the builder.
AttachLabelAndAttributes(ra, element_node, element) ==
  IF element_node.flavor = "" THEN ra
  ELSE [ra EXCEPT !.heap[element].flavor = element_node.flavor]

-----------------------------------------------------------------------------
(* Definitions *)

\* FaultTree::AddGate: the gates defined in a fault tree.
FaultTreeAddGate(ra, ft, gate) ==
  [ra EXCEPT !.fault_trees_[ft] = @ \cup {gate}]

\* UpdateTbdGate that leaves the placeholder in tbd_gates_.
UpdateTbdGateKeepsPlaceholder(ra, id, orig_id) ==
  IF Count(ra.tbd_gates_, id)
  THEN ra
  ELSE UpdateIfLateEvent(Alloc(ra, Handle("gate", id), orig_id),
                         Handle("gate", id))

\* Gate::vote_number(k): the vote number of an ATLEAST gate is at least 2.
SetVoteNumber(ra, gate, k) ==
  IF k < 2
  THEN Throw(ra, GateStructureError("vote number is less than 2"))
  ELSE [ra EXCEPT !.heap[gate].vote_number = k]

\* "Update to be defined events" of DefineGate: the placeholder of the id
\* becomes the gate, or else a new gate takes the pending requests.
UpdateTbdGate(ra, id, orig_id) ==
  IF Count(ra.tbd_gates_, id)
  THEN [ra EXCEPT !.tbd_gates_ = Erase(@, id)]
  ELSE UpdateIfLateEvent(Alloc(ra, Handle("gate", id), orig_id),
                         Handle("gate", id))

\* DefineGate up to the call of ProcessFormula; gate_node is
\* [name, type, min, flavor].
DefineGate(ra, gate_node, ft) ==
  LET orig_id == trim(gate_node.name)
      id == to_lower(orig_id)
      type == gate_node.type
      i_event == Handle("gate", id)
      Promote(r) == UpdateTbdGate(r, id, orig_id)
      Register(r) ==
        LET r1 == [r EXCEPT !.gates_ = Insert(@, id, i_event)]
            r2 == AttachLabelAndAttributes(r1, gate_node, i_event)
            r3 == FaultTreeAddGate(r2, ft, i_event)
            r4 == [r3 EXCEPT !.heap[i_event].type = type]
        IN  IF type = "atleast"
            THEN SetVoteNumber(r4, i_event, gate_node.min)
            ELSE r4
  IN  IF Count(ra.gates_, id)
      THEN Throw(ra, ValidationError("gate is doubly defined"))
      ELSE IF IsPrimaryEvent(ra, id)
      THEN Throw(ra, ValidationError("already assigned to a primary event"))
      ELSE IF type \notin gate_types_
      THEN Throw(ra, ValidationError("gate formulae is not supported"))
      ELSE Then(Promote(ra), Register)

\* GetBasicEvent that does not look for the id among the defined events.
GetBasicEventAgain(ra, event_node) ==
  LET orig_id == trim(event_node.name)
      id == to_lower(orig_id)
      basic_event == Handle("basic", id)
  IN  IF IsGate(ra, id)
      THEN Throw(ra, ValidationError("already assigned to a gate"))
      ELSE IF Count(ra.tbd_house_events_, id)
      THEN Throw(ra, ValidationError("already used by a house event"))
      ELSE IF Count(ra.primary_events_, id) THEN ra
      ELSE UpdateIfLateEvent(
             [Alloc(ra, basic_event, orig_id) EXCEPT
                !.primary_events_ = Insert(@, id, basic_event),
                !.basic_events_ = Insert(@, id, basic_event)],
             basic_event)

GetBasicEvent(ra, event_node) ==
  LET orig_id == trim(event_node.name)
      id == to_lower(orig_id)
      basic_event == Handle("basic", id)
  IN  IF IsGate(ra, id)
      THEN Throw(ra, ValidationError("already assigned to a gate"))
      ELSE IF Count(ra.primary_events_, id)
      THEN Throw(ra, ValidationError("event is doubly defined"))
      ELSE IF Count(ra.tbd_house_events_, id)
      THEN Throw(ra, ValidationError("already used by a house event"))
      ELSE IF Count(ra.tbd_basic_events_, id)
      THEN [ra EXCEPT
              !.primary_events_ = Insert(@, id, ra.tbd_basic_events_[id]),
              !.basic_events_ = Insert(@, id, ra.tbd_basic_events_[id]),
              !.tbd_basic_events_ = Erase(@, id)]
      ELSE UpdateIfLateEvent(
             [Alloc(ra, basic_event, orig_id) EXCEPT
                !.primary_events_ = Insert(@, id, basic_event),
                !.basic_events_ = Insert(@, id, basic_event)],
             basic_event)

\* event_node is [name, expression, flavor]; NoExpression stands for a
\* definition without an expression.
DefineBasicEvent(ra, event_node) ==
  LET basic_event == Handle("basic", to_lower(trim(event_node.name)))
      Body(r) ==
        IF event_node.expression # NoExpression
        THEN LET Finish(r1) ==
                   AttachLabelAndAttributes(
                     [r1 EXCEPT !.heap[basic_event].expression =
                                   event_node.expression],
                     event_node, basic_event)
             IN  Then(GetExpression(r, event_node.expression), Finish)
        ELSE Throw(r, ValidationError("basic event does not have an expression"))
  IN  Then(GetBasicEvent(ra, event_node), Body)

\* event_node is [name, constant, flavor]; constant is "none", "true" or
\* "false".
DefineHouseEvent(ra, event_node) ==
  LET orig_id == trim(event_node.name)
      id == to_lower(orig_id)
      house_event == Handle("house", id)
      state == (event_node.constant = "true")
      Known(r) ==
        [r EXCEPT !.heap[r.tbd_house_events_[id]].state = state,
                  !.primary_events_ = Insert(@, id, r.tbd_house_events_[id]),
                  !.tbd_house_events_ = Erase(@, id)]
      Fresh(r) ==
        LET r1 == Alloc(r, house_event, orig_id)
            r2 == [r1 EXCEPT !.heap[house_event].state = state,
                             !.primary_events_ = Insert(@, id, house_event)]
        IN  UpdateIfLateEvent(r2, house_event)
      Attach(r) == AttachLabelAndAttributes(r, event_node, house_event)
  IN  IF IsGate(ra, id)
      THEN Throw(ra, ValidationError("already assigned to a gate"))
      ELSE IF Count(ra.primary_events_, id)
      THEN Throw(ra, ValidationError("event is doubly defined"))
      ELSE IF Count(ra.tbd_basic_events_, id)
      THEN Throw(ra, ValidationError("already used by a basic event"))
      ELSE IF event_node.constant = "none"
      THEN Throw(ra, ValidationError("house event does not have a constant"))
      ELSE Then(IF Count(ra.tbd_house_events_, id) THEN Known(ra) ELSE Fresh(ra),
                Attach)

\* DefineParameter that leaves the placeholder in tbd_parameters_.
DefineParameterKeepsPlaceholder(ra, param_node) ==
  LET name == trim(param_node.name)
      parameter == Handle("parameter", name)
      r0 == IF Count(ra.tbd_parameters_, name)
            THEN [ra EXCEPT
                    !.parameters_ = Insert(@, name, ra.tbd_parameters_[name])]
            ELSE [Alloc(ra, parameter, name) EXCEPT
                    !.parameters_ = Insert(@, name, parameter)]
      SetIt(r) == SetParameterExpression(r, parameter, param_node.expression)
  IN  IF Count(ra.parameters_, name)
      THEN Throw(ra, ValidationError("parameter is doubly defined"))
      ELSE Then(GetExpression(r0, param_node.expression), SetIt)

\* param_node is [name, expression, flavor].
DefineParameter(ra, param_node) ==
  LET name == trim(param_node.name)
      parameter == Handle("parameter", name)
      r0 == IF Count(ra.tbd_parameters_, name)
            THEN [ra EXCEPT
                    !.parameters_ = Insert(@, name, ra.tbd_parameters_[name]),
                    !.tbd_parameters_ = Erase(@, name)]
            ELSE [Alloc(ra, parameter, name) EXCEPT
                    !.parameters_ = Insert(@, name, parameter)]
      SetIt(r) ==
        LET Attach(r1) == AttachLabelAndAttributes(r1, param_node, parameter)
        IN  Then(SetParameterExpression(r, parameter, param_node.expression),
                 Attach)
  IN  IF Count(ra.parameters_, name)
      THEN Throw(ra, ValidationError("parameter is doubly defined"))
      ELSE Then(GetExpression(r0, param_node.expression), SetIt)

-----------------------------------------------------------------------------
(* Containers *)

\* DefineFaultTree that keys the fault tree by its name as written.
DefineFaultTreeAsWritten(ra, ft_node) ==
  LET id == ft_node.name
  IN  IF Count(ra.fault_trees_, id)
      THEN Throw(ra, ValidationError("fault tree is already defined"))
      ELSE [ra EXCEPT !.fault_trees_ = Insert(@, id, {})]

\* DefineFaultTree up to the loop over the children of the element.
DefineFaultTree(ra, ft_node) ==
  LET id == to_lower(ft_node.name)
  IN  IF Count(ra.fault_trees_, id)
      THEN Throw(ra, ValidationError("fault tree is already defined"))
      ELSE [ra EXCEPT !.fault_trees_ = Insert(@, id, {})]

\* FaultTreeElement that takes every definition as a probability request.
FaultTreeElementAny(ra, name) ==
  IF ~ra.prob_requested_ THEN [ra EXCEPT !.prob_requested_ = TRUE] ELSE ra

\* The head of the loop of DefineFaultTree, for the child element `name`.
FaultTreeElement(ra, name) ==
  IF ~ra.prob_requested_
     /\ (name = "define-basic-event" \/ name = "define-house-event")
  THEN [ra EXCEPT !.prob_requested_ = TRUE]
  ELSE ra

\* ProcessModelData up to the loop over the children of the element.
ProcessModelData(ra) == [ra EXCEPT !.prob_requested_ = TRUE]

\* DefineCcfGroup up to the loop over the children of the element.
DefineCcfGroup(ra, ccf_node) ==
  LET id == to_lower(ccf_node.name)
  IN  IF Count(ra.ccf_groups_, id)
      THEN Throw(ra, ValidationError("CCF group is already defined"))
      ELSE [ra EXCEPT !.ccf_groups_ = Insert(@, id, <<>>),
                      !.prob_requested_ = TRUE]

\* One iteration of the loop of ProcessCcfMembers.
ProcessCcfMember(ra, event_node, ccf_group) ==
  LET basic_event == Handle("basic", to_lower(trim(event_node.name)))
      AddMember(r) == [r EXCEPT !.ccf_groups_[ccf_group] = Append(@, basic_event)]
  IN  Then(GetBasicEvent(ra, event_node), AddMember)

\* factor_node is [level, expression]; level "" stands for a missing level.
DefineCcfFactor(ra, factor_node, ccf_group) ==
  IF factor_node.level = ""
  THEN Throw(ra, ValidationError("factor level number is not provided"))
  ELSE GetExpression(ra, factor_node.expression)

-----------------------------------------------------------------------------
(* End of input and validation *)

RECURSIVE InsertAll(_, _)
\* The loop inserting every entry of map `from` into map `into`.
InsertAll(into, from) ==
  IF DOMAIN from = {} THEN into
  ELSE LET k == CHOOSE x \in DOMAIN from : TRUE
       IN  InsertAll(Insert(into, k, from[k]), Erase(from, k))

UndefinedBehavior(what) == [type |-> "UndefinedBehavior", what |-> what, report |-> {}]

RECURSIVE CreateUntyped(_, _)
\* The loop over tbd_events_ at the end of input; todo holds the keys left.
CreateUntyped(ra, todo) ==
  IF Failed(ra) \/ todo = {} THEN ra
  ELSE LET id == CHOOSE x \in todo : TRUE
           child == Handle("basic", id)
           r1 == [Alloc(ra, child, ra.tbd_orig_ids_[id]) EXCEPT
                    !.primary_events_ = Insert(@, id, child),
                    !.basic_events_ = Insert(@, id, child)]
       IN  IF ~Count(ra.tbd_orig_ids_, id)
           THEN Throw(ra, UndefinedBehavior("tbd_orig_ids_.find(id) is end()"))
           ELSE CreateUntyped(LinkAll(r1, ra.tbd_events_[id], 1, child),
                              todo \ {id})

\* ProcessInputFiles after the loop over the files, before validation.
CreateUndefined(ra) ==
  IF ~ra.prob_requested_
  THEN LET r1 == [ra EXCEPT
                    !.primary_events_ =
                       InsertAll(InsertAll(@, ra.tbd_house_events_),
                                 ra.tbd_basic_events_),
                    !.basic_events_ = InsertAll(@, ra.tbd_basic_events_)]
       IN  CreateUntyped(r1, DOMAIN r1.tbd_events_)
  ELSE ra

two_or_more == {"and", "or", "nand", "nor"}

single == {"null", "not"}

Size(m) == Cardinality(DOMAIN m)

HasAttribute(ra, h, name) == name = "flavor" /\ ra.heap[h].flavor # ""

\* CheckInhibitGate that does not look for a second conditional event.
CheckInhibitGateOneOrMore(ra, event) ==
  LET o == ra.heap[event]
      conditional ==
        {c \in DOMAIN o.children :
           /\ Count(ra.primary_events_, c)
           /\ HasAttribute(ra, o.children[c], "flavor")
           /\ ra.heap[o.children[c]].flavor = "conditional"}
  IN  IF Size(o.children) # 2
      THEN {<<o.orig_id, "INHIBIT gate must have exactly 2 children">>}
      ELSE IF conditional = {}
           THEN {<<o.orig_id, "INHIBIT gate is missing a conditional event">>}
           ELSE {}

\* The diagnostics of CheckInhibitGate, each <<orig_id, text>>.
CheckInhibitGate(ra, event) ==
  LET o == ra.heap[event]
      conditional ==
        {c \in DOMAIN o.children :
           /\ Count(ra.primary_events_, c)
           /\ HasAttribute(ra, o.children[c], "flavor")
           /\ ra.heap[o.children[c]].flavor = "conditional"}
  IN  IF Size(o.children) # 2
      THEN {<<o.orig_id, "INHIBIT gate must have exactly 2 children">>}
      ELSE (IF Cardinality(conditional) > 1
            THEN {<<o.orig_id, "INHIBIT gate must have exactly one conditional event">>}
            ELSE {})
           \cup
           (IF conditional = {}
            THEN {<<o.orig_id, "INHIBIT gate is missing a conditional event">>}
            ELSE {})

\* CheckGate that lets an ATLEAST gate have as many children as its vote
\* number.
CheckGateVoteEqual(ra, event) ==
  LET o == ra.heap[event]
      size == Size(o.children)
      gate == IF o.type = "and" /\ HasAttribute(ra, event, "flavor")
                 /\ o.flavor = "inhibit"
              THEN "inhibit" ELSE o.type
  IN  IF size = 0 THEN {<<o.orig_id, "No children detected">>}
      ELSE IF gate \in two_or_more
      THEN IF size < 2
           THEN {<<o.orig_id, "gate must have 2 or more children">>} ELSE {}
      ELSE IF gate \in single
      THEN IF size # 1
           THEN {<<o.orig_id, "gate must have exactly one child">>} ELSE {}
      ELSE IF gate = "xor"
      THEN IF size # 2
           THEN {<<o.orig_id, "gate must have exactly 2 children">>} ELSE {}
      ELSE IF gate = "inhibit" THEN CheckInhibitGate(ra, event)
      ELSE IF gate = "atleast"
      THEN IF size < o.vote_number
           THEN {<<o.orig_id, "gate must have more children than its vote number">>}
           ELSE {}
      ELSE {<<o.orig_id, "Gate Check failure">>}

\* CheckGate that lets an XOR gate have more than two children and a NULL or
\* NOT gate more than one.
CheckGateAtLeast(ra, event) ==
  LET o == ra.heap[event]
      size == Size(o.children)
      gate == IF o.type = "and" /\ HasAttribute(ra, event, "flavor")
                 /\ o.flavor = "inhibit"
              THEN "inhibit" ELSE o.type
  IN  IF size = 0 THEN {<<o.orig_id, "No children detected">>}
      ELSE IF gate \in two_or_more
      THEN IF size < 2
           THEN {<<o.orig_id, "gate must have 2 or more children">>} ELSE {}
      ELSE IF gate \in single
      THEN IF size < 1
           THEN {<<o.orig_id, "gate must have exactly one child">>} ELSE {}
      ELSE IF gate = "xor"
      THEN IF size < 2
           THEN {<<o.orig_id, "gate must have exactly 2 children">>} ELSE {}
      ELSE IF gate = "inhibit" THEN CheckInhibitGate(ra, event)
      ELSE IF gate = "atleast"
      THEN IF size <= o.vote_number
           THEN {<<o.orig_id, "gate must have more children than its vote number">>}
           ELSE {}
      ELSE {<<o.orig_id, "Gate Check failure">>}

\* The diagnostics of CheckGate: empty when the gate is well formed.
CheckGate(ra, event) ==
  LET o == ra.heap[event]
      size == Size(o.children)
      gate == IF o.type = "and" /\ HasAttribute(ra, event, "flavor")
                 /\ o.flavor = "inhibit"
              THEN "inhibit" ELSE o.type
  IN  IF size = 0 THEN {<<o.orig_id, "No children detected">>}
      ELSE IF gate \in two_or_more
      THEN IF size < 2
           THEN {<<o.orig_id, "gate must have 2 or more children">>} ELSE {}
      ELSE IF gate \in single
      THEN IF size # 1
           THEN {<<o.orig_id, "gate must have exactly one child">>} ELSE {}
      ELSE IF gate = "xor"
      THEN IF size # 2
           THEN {<<o.orig_id, "gate must have exactly 2 children">>} ELSE {}
      ELSE IF gate = "inhibit" THEN CheckInhibitGate(ra, event)
      ELSE IF gate = "atleast"
      THEN IF size <= o.vote_number
           THEN {<<o.orig_id, "gate must have more children than its vote number">>}
           ELSE {}
      ELSE {<<o.orig_id, "Gate Check failure">>}

\* CheckAllGates that stops at the first gate with a diagnostic.
CheckAllGatesFirstOnly(ra) ==
  LET bad_gates == UNION {CheckGate(ra, ra.gates_[id]) : id \in DOMAIN ra.gates_}
  IN  IF bad_gates = {} THEN {} ELSE {CHOOSE message \in bad_gates : TRUE}

CheckAllGates(ra) ==
  UNION {CheckGate(ra, ra.gates_[id]) : id \in DOMAIN ra.gates_}

CheckMissingEvents(ra) ==
  {<<ra.heap[ra.tbd_house_events_[id]].orig_id, "Missing definition for House event">> :
     id \in DOMAIN ra.tbd_house_events_}
  \cup
  {<<ra.heap[ra.tbd_basic_events_[id]].orig_id, "Missing definition for Basic event">> :
     id \in DOMAIN ra.tbd_basic_events_}
  \cup
  {<<IF Count(ra.tbd_orig_ids_, id) THEN ra.tbd_orig_ids_[id] ELSE <<>>,
     "Missing definition for Untyped event">> : id \in DOMAIN ra.tbd_events_}

\* CheckMissingParameters that finds nothing.
CheckMissingParametersNone(ra) == {}

CheckMissingParameters(ra) ==
  {<<name, "Missing parameter definition">> : name \in DOMAIN ra.tbd_parameters_}

\* The parameters an expression element refers to directly.
RECURSIVE ParametersIn(_)
ParametersIn(e) ==
  IF e.op = "parameter" THEN {e.name}
  ELSE UNION {ParametersIn(e.args[i]) : i \in DOMAIN e.args}

RECURSIVE ReachesParameter(_, _, _, _)
\* A path of parameter references of at most n steps leads from `from` to
\* `to`.
ReachesParameter(ra, from, to, n) ==
  /\ n > 0
  /\ Count(ra.heap, Handle("parameter", from))
  /\ \E next \in ParametersIn(ra.heap[Handle("parameter", from)].expression) :
       next = to \/ ReachesParameter(ra, next, to, n - 1)

\* ValidateExpressions that accepts every parameter.
ValidateExpressionsNone(ra) == ra

\* Parameter::Validate over parameters_: a parameter that reaches itself.
\* The validation of expression values, of the distributions of CCF groups
\* and of the probabilities of basic events is in classes outside this
\* file and is taken to accept.
ValidateExpressions(ra) ==
  IF \E name \in DOMAIN ra.parameters_ :
       ReachesParameter(ra, name, name, Size(ra.parameters_))
  THEN Throw(ra, ValidationError("cyclic parameter reference"))
  ELSE ra

\* CheckFirstLayer that looks for missing events whatever the flag says.
CheckFirstLayerAlwaysMissing(ra) ==
  LET error_messages ==
        {<<ra.heap[ra.tbd_gates_[id]].orig_id, "Undefined gate">> :
           id \in DOMAIN ra.tbd_gates_}
        \cup CheckAllGates(ra)
        \cup CheckMissingEvents(ra) \cup CheckMissingParameters(ra)
  IN  IF error_messages # {}
      THEN Throw(ra, [type |-> "ValidationError", what |-> "first layer",
                      report |-> error_messages])
      ELSE ValidateExpressions(ra)

\* CheckFirstLayer that does not look at tbd_gates_.
CheckFirstLayerNoGates(ra) ==
  LET error_messages ==
        CheckAllGates(ra)
        \cup (IF ra.prob_requested_
              THEN CheckMissingEvents(ra) \cup CheckMissingParameters(ra)
              ELSE {})
  IN  IF error_messages # {}
      THEN Throw(ra, [type |-> "ValidationError", what |-> "first layer",
                      report |-> error_messages])
      ELSE ValidateExpressions(ra)

CheckFirstLayer(ra) ==
  LET error_messages ==
        {<<ra.heap[ra.tbd_gates_[id]].orig_id, "Undefined gate">> :
           id \in DOMAIN ra.tbd_gates_}
        \cup CheckAllGates(ra)
        \cup (IF ra.prob_requested_
              THEN CheckMissingEvents(ra) \cup CheckMissingParameters(ra)
              ELSE {})
  IN  IF error_messages # {}
      THEN Throw(ra, [type |-> "ValidationError", what |-> "first layer",
                      report |-> error_messages])
      ELSE ValidateExpressions(ra)

\* The gates among the children of gate g.
GateChildren(ra, g) ==
  {ra.heap[g].children[c] : c \in DOMAIN ra.heap[g].children}
  \cap {h \in DOMAIN ra.heap : KindOf(h) = "gate"}

RECURSIVE ReachesGate(_, _, _, _)
\* A path of child links of at most n steps leads from gate `from` to `to`.
ReachesGate(ra, from, to, n) ==
  /\ n > 0
  /\ \E next \in GateChildren(ra, from) :
       next = to \/ ReachesGate(ra, next, to, n - 1)

NumGates(ra) == Cardinality({h \in DOMAIN ra.heap : KindOf(h) = "gate"})

\* FaultTree::Validate: no gate of the tree lies on or above a cycle.
FaultTreeValid(ra, ft) ==
  \A g \in ra.fault_trees_[ft] :
    \A h \in {g} \cup {x \in DOMAIN ra.heap :
                        KindOf(x) = "gate" /\ ReachesGate(ra, g, x, NumGates(ra))} :
      ~ReachesGate(ra, h, h, NumGates(ra))

\* The order of the characters of a string: space, digits, upper-case
\* letters, lower-case letters, tilde, as their character codes order them.
CharRank(ch) ==
  LET chars == <<" ", "0", "1", "2", "3", "4", "5", "6", "7", "8", "9",
                 "A", "B", "C", "D", "E", "F", "G", "H", "I", "J", "K", "L", "M",
                 "N", "O", "P", "Q", "R", "S", "T", "U", "V", "W", "X", "Y", "Z",
                 "a", "b", "c", "d", "e", "f", "g", "h", "i", "j", "k", "l", "m",
                 "n", "o", "p", "q", "r", "s", "t", "u", "v", "w", "x", "y", "z",
                 "~">>
  IN  IF \E i \in DOMAIN chars : chars[i] = ch
      THEN CHOOSE i \in DOMAIN chars : chars[i] = ch
      ELSE 0

RECURSIVE StringLess(_, _)
\* operator< of std::string, the order of the keys of a std::map.
StringLess(s, t) ==
  IF t = <<>> THEN FALSE
  ELSE IF s = <<>> THEN TRUE
  ELSE IF CharRank(Head(s)) # CharRank(Head(t))
  THEN CharRank(Head(s)) < CharRank(Head(t))
  ELSE StringLess(Tail(s), Tail(t))

\* begin() of a std::map over the keys left.
FirstKey(keys) == CHOOSE k \in keys : \A other \in keys \ {k} : StringLess(k, other)

RECURSIVE ValidateFaultTrees(_, _)
\* The loop over fault_trees_ of CheckSecondLayer; todo holds the keys left.
\* The exception of FaultTree::Validate leaves the loop.
ValidateFaultTrees(ra, todo) ==
  IF Failed(ra) \/ todo = {} THEN ra
  ELSE LET ft == FirstKey(todo)
           r1 == [ra EXCEPT !.validated_ = @ \cup {Handle("fault-tree", ft)}]
       IN  IF ~FaultTreeValid(ra, ft)
           THEN Throw(r1, ValidationError("cyclic fault tree"))
           ELSE ValidateFaultTrees(r1, todo \ {ft})

\* The loop over ccf_groups_ of CheckSecondLayer; CcfGroup::Validate is
\* taken to accept.
ValidateCcfGroups(ra) ==
  [ra EXCEPT !.validated_ =
     @ \cup {Handle("ccf-group", id) : id \in DOMAIN ra.ccf_groups_}]

\* CheckSecondLayer without the loop over the fault trees.
CheckSecondLayerCcfOnly(ra) == ValidateCcfGroups(ra)

CheckSecondLayer(ra) ==
  Then(ValidateFaultTrees(ra, DOMAIN ra.fault_trees_), ValidateCcfGroups)

\* parents() of an event without parents throws; such primary events are
\* the orphans.
OrphanPrimaryEvents(ra) ==
  {ra.primary_events_[id] : id \in
     {x \in DOMAIN ra.primary_events_ :
        Size(ra.heap[ra.primary_events_[x]].parents) = 0}}

\* ValidateInitialization that gathers no orphans.
ValidateInitializationNoOrphans(ra) == Then(CheckFirstLayer(ra), CheckSecondLayer)

\* The loop over primary_events_ of ValidateInitialization.
GatherOrphans(ra) ==
  [ra EXCEPT !.orphan_primary_events_ = @ \cup OrphanPrimaryEvents(ra)]

ValidateInitialization(ra) ==
  Then(Then(CheckFirstLayer(ra), CheckSecondLayer), GatherOrphans)

RECURSIVE SetupEach(_, _, _)
\* A loop of SetupForAnalysis over the keys of a map; todo holds the keys
\* left.  CcfGroup::ApplyModel and FaultTree::SetupForAnalysis are taken to
\* accept a validated model.
SetupEach(ra, kind, todo) ==
  IF todo = {} THEN ra
  ELSE LET id == FirstKey(todo)
       IN  SetupEach([ra EXCEPT !.setup_ = Append(@, Handle(kind, id))],
                     kind, todo \ {id})

\* CcfGroup::ApplyModel on every CCF group, then FaultTree::SetupForAnalysis
\* on every fault tree.
SetupForAnalysis(ra) ==
  SetupEach(SetupEach(ra, "ccf-group", DOMAIN ra.ccf_groups_),
            "fault-tree", DOMAIN ra.fault_trees_)

\* ProcessInputFiles that sets up the analysis before it validates.
FinishInputSetupFirst(ra) ==
  Then(Then(CreateUndefined(ra), SetupForAnalysis), ValidateInitialization)

\* ProcessInputFiles after the loop over the files.
FinishInput(ra) ==
  Then(Then(CreateUndefined(ra), ValidateInitialization), SetupForAnalysis)

-----------------------------------------------------------------------------
(* Inputs *)

MaxVote == 2

GateNodes(names, types, flavors) ==
  [name : names, type : types, min : 1..MaxVote, flavor : flavors]

\* Child references: every element name without a type attribute, and
\* <event> with each of the given type attributes.
Refs(names, types) ==
  {Ref(elem, name, "") :
     elem \in {"event", "gate", "basic-event", "house-event"}, name \in names}
  \cup
  {Ref("event", name, type) : type \in types, name \in names}

Float == Expr("float", <<>>, <<>>)

Parameter(name) == Expr("parameter", name, <<>>)

-----------------------------------------------------------------------------
(* The state machine of ProcessInputFiles *)

NoCur == [ft |-> <<>>, gate |-> <<>>, children_id |-> {}, ccf |-> <<>>,
          ret |-> "input", decl |-> 0]

\* The input of the specifications that draw each element when it is read.
NoInput == [decls |-> <<>>, layout |-> "one-file"]

\* What the builder held for the id of an element of the given kind before
\* the element was handed to it.
Known(ra, kind, id) ==
  IF kind \in {"gate", "basic", "house", "untyped"}
  THEN [requesters |->
          IF Count(ra.tbd_events_, id) THEN ra.tbd_events_[id] ELSE <<>>,
        placeholder |->
          (IF Count(ra.tbd_gates_, id) THEN {"gate"} ELSE {})
          \cup (IF Count(ra.tbd_basic_events_, id) THEN {"basic"} ELSE {})
          \cup (IF Count(ra.tbd_house_events_, id) THEN {"house"} ELSE {}),
        defined |->
          (IF Count(ra.gates_, id) THEN {"gate"} ELSE {})
          \cup (IF Count(ra.primary_events_, id)
                THEN {KindOf(ra.primary_events_[id])} ELSE {}),
        folded |-> FALSE]
  ELSE [requesters |-> <<>>,
        placeholder |->
          IF kind = "parameter" /\ Count(ra.tbd_parameters_, id)
          THEN {kind} ELSE {},
        defined |->
          IF \/ kind = "fault-tree" /\ Count(ra.fault_trees_, id)
             \/ kind = "ccf-group" /\ Count(ra.ccf_groups_, id)
             \/ kind = "parameter" /\ Count(ra.parameters_, id)
          THEN {kind} ELSE {},
        folded |->
          /\ kind = "parameter"
          /\ \E n \in DOMAIN ra.parameters_ : n # id /\ to_lower(n) = to_lower(id)]

Last(op, name, id, kind, known) ==
  [op |-> op, name |-> name, id |-> id, kind |-> kind, known |-> known]

Set(r, next_pc) ==
  /\ gates_' = r.gates_
  /\ tbd_gates_' = r.tbd_gates_
  /\ primary_events_' = r.primary_events_
  /\ basic_events_' = r.basic_events_
  /\ tbd_basic_events_' = r.tbd_basic_events_
  /\ tbd_house_events_' = r.tbd_house_events_
  /\ tbd_events_' = r.tbd_events_
  /\ tbd_orig_ids_' = r.tbd_orig_ids_
  /\ parameters_' = r.parameters_
  /\ tbd_parameters_' = r.tbd_parameters_
  /\ fault_trees_' = r.fault_trees_
  /\ ccf_groups_' = r.ccf_groups_
  /\ prob_requested_' = r.prob_requested_
  /\ setup_' = r.setup_
  /\ ftas_' = r.ftas_
  /\ validated_' = r.validated_
  /\ orphan_primary_events_' = r.orphan_primary_events_
  /\ heap' = r.heap
  /\ error' = r.error
  /\ pc' = IF Failed(r) THEN "failed" ELSE next_pc
  /\ input' = input
  /\ fta' = fta
  /\ UNCHANGED <<report_level_, settings_, mission_time_, written,
                 prob_analyses_, uncertainty_analyses_>>

\* The outcome of a call on an object: the exception thrown, if any, and
\* the object after the call.
Called(thrown, object) == [thrown |-> thrown, object |-> object]

NoObject == [value_ |-> 0, sampled_ |-> <<>>, constructed |-> FALSE]

\* MissionTime::MissionTime(time): a negative time is refused.  The node
\* holds the value and the sample that Expression::Sample may keep.
MissionTime(time) ==
  IF time < 0
  THEN Called(LogicError("Mission time cannot be negative."), NoObject)
  ELSE Called(NoError,
               [value_ |-> time, sampled_ |-> <<>>, constructed |-> TRUE])

\* A setter that stores whatever it is given.
MissionTimeValueUnchecked(mt, time) ==
  Called(NoError, [mt EXCEPT !.value_ = time])

\* MissionTime::value(time), in risk_analysis.cc mission_time(time): a
\* negative time is refused before the value is stored.
MissionTimeValue(mt, time) ==
  IF time < 0
  THEN Called(LogicError("Mission time cannot be negative."), mt)
  ELSE Called(NoError, [mt EXCEPT !.value_ = time])

MissionTimeMin(mt) == 0

Mean(mt) == mt.value_

IsDeviate(mt) == FALSE

\* A sample that is always 0.
DoSampleZero(mt) == 0

DoSample(mt) == mt.value_

\* Expression::Sample(): the value of DoSample, or the sample kept from an
\* earlier call of the same trial.
Sample(mt) == IF mt.sampled_ = <<>> THEN DoSample(mt) ELSE mt.sampled_[1]

\* The node after Sample(): it may keep the sample for the rest of the trial.
Sampled(mt, keep) ==
  IF mt.sampled_ = <<>> /\ keep THEN [mt EXCEPT !.sampled_ = <<DoSample(mt)>>]
  ELSE mt

\* Expression::Reset(): a new trial begins, the sample kept is dropped.
Reset(mt) == [mt EXCEPT !.sampled_ = <<>>]

\* The settings of the specifications that do not vary them.
FixedSettings == [mission_time_ |-> 1, fta_type_ |-> "default"]

\* One entry of written: who set the mission time, to what, after which
\* element of the input and after how many analyses.
Written(by, time, after, analyses) ==
  [by |-> by, time |-> time, after |-> after, analyses |-> analyses]

\* A call that leaves the mission time as it is.
SetMissionTimeNever(mt, log, entry) ==
  [thrown |-> NoError, object |-> mt, written |-> log]

\* mission_time_->mission_time(settings_.mission_time_), and its entry in
\* written.
SetMissionTime(mt, log, entry) ==
  LET set == MissionTimeValue(mt, entry.time)
  IN  [thrown |-> set.thrown, object |-> set.object,
       written |-> Append(log, entry)]

-----------------------------------------------------------------------------
(* Logger *)

kLevelToString_ ==
  <<"ERROR", "WARNING", "INFO", "DEBUG1", "DEBUG2", "DEBUG3", "DEBUG4",
    "DEBUG5">>

\* The LogLevel whose name Logger::Get reads from kLevelToString_.
LogLevel(name) ==
  (CHOOSE i \in DOMAIN kLevelToString_ : kLevelToString_[i] = name) - 1

ERROR == LogLevel("ERROR")

\* The highest level of logger.h, the last one that has a name.
kMaxVerbosity == Len(kLevelToString_) - 1

InvalidArgument(what) == [type |-> "InvalidArgument", what |-> what, report |-> {}]

\* A setter that stores whatever it is given.
SetVerbosityUnchecked(report_level, level) == Called(NoError, level)

\* Logger::SetVerbosity(level) on the report level it finds.
SetVerbosity(report_level, level) ==
  IF level < 0 \/ level > kMaxVerbosity
  THEN Called(InvalidArgument("Log verbosity must be between 0 and kMaxVerbosity"),
              report_level)
  ELSE Called(NoError, level)

-----------------------------------------------------------------------------
(* The initial state *)

\* The fault tree analysis of the specifications that run none.
NoFta == [stage |-> "none"]

\* RiskAnalysis after construction.
InitRiskAnalysis ==
  /\ gates_ = EmptyMap
  /\ tbd_gates_ = EmptyMap
  /\ primary_events_ = EmptyMap
  /\ basic_events_ = EmptyMap
  /\ tbd_basic_events_ = EmptyMap
  /\ tbd_house_events_ = EmptyMap
  /\ tbd_events_ = EmptyMap
  /\ tbd_orig_ids_ = EmptyMap
  /\ parameters_ = EmptyMap
  /\ tbd_parameters_ = EmptyMap
  /\ fault_trees_ = EmptyMap
  /\ ccf_groups_ = EmptyMap
  /\ prob_requested_ = FALSE
  /\ setup_ = <<>>
  /\ ftas_ = <<>>
  /\ validated_ = {}
  /\ orphan_primary_events_ = {}
  /\ report_level_ = ERROR
  /\ mission_time_ = MissionTime(0).object
  /\ written = <<>>
  /\ prob_analyses_ = <<>>
  /\ uncertainty_analyses_ = <<>>
  /\ heap = EmptyMap
  /\ error = NoError
  /\ pc = "start"
  /\ cur = NoCur
  /\ last = Last("none", <<>>, <<>>, "none", Known(NewRiskAnalysis, "none", <<>>))
  /\ seen = {}

\* The builder after construction, before the first file.
InitBuilder == InitRiskAnalysis /\ fta = NoFta /\ settings_ = FixedSettings

Init == InitBuilder /\ input = NoInput

\* The container the next element is a child of.
Container ==
  CASE pc = "ft" -> "define-fault-tree"
    [] pc = "md" -> "model-data"
    [] pc = "ccf" -> "define-CCF-group"
    [] OTHER -> "opsa-mef"

\* ProcessInputFiles begins: the mission time of the settings is stored
\* before the first file is read.
BeginInputFiles ==
  /\ pc = "start"
  /\ LET set == SetMissionTime(mission_time_, written,
                               Written("ProcessInputFiles",
                                       settings_.mission_time_, last.op, 0))
     IN  /\ mission_time_' = set.object
         /\ written' = set.written
         /\ error' = set.thrown
         /\ pc' = IF set.thrown = NoError THEN "input" ELSE "failed"
  /\ UNCHANGED <<gates_, tbd_gates_, primary_events_, basic_events_,
                 tbd_basic_events_, tbd_house_events_, tbd_events_,
                 tbd_orig_ids_, parameters_, tbd_parameters_, fault_trees_,
                 ccf_groups_, prob_requested_, setup_, ftas_, validated_,
                 orphan_primary_events_, report_level_,
                 settings_, prob_analyses_, uncertainty_analyses_, fta, heap,
                 cur, last, seen, input>>

\* <define-fault-tree name=...>
BeginFaultTree(names) ==
  /\ pc = "input"
  /\ \E name \in names :
       /\ Set(DefineFaultTree(RA, [name |-> name]), "ft")
       /\ cur' = [NoCur EXCEPT !.ft = to_lower(name)]
       /\ last' = Last("define-fault-tree", name, to_lower(name), "fault-tree",
                       Known(RA, "fault-tree", to_lower(name)))
       /\ seen' = seen \cup {<<Container, "define-fault-tree">>}

\* </define-fault-tree>
EndFaultTree ==
  /\ pc = "ft"
  /\ Set(RA, "input")
  /\ cur' = NoCur
  /\ UNCHANGED <<last, seen>>

\* The builder inside a container: in a fault tree the head of the loop
\* over the children runs before the child is dispatched.
InContainer(name) ==
  IF pc = "ft" THEN FaultTreeElement(RA, name) ELSE RA

\* <define-gate name=...> inside a fault tree, up to its formula.
BeginGate(nodes) ==
  /\ pc = "ft"
  /\ \E gate_node \in nodes :
       LET id == to_lower(trim(gate_node.name))
       IN  /\ Set(DefineGate(InContainer("define-gate"), gate_node, cur.ft),
                  "formula")
           /\ cur' = [cur EXCEPT !.gate = Handle("gate", id), !.children_id = {}]
           /\ last' = Last("define-gate", gate_node.name, id, "gate",
                           Known(RA, "gate", id))
           /\ seen' = seen \cup {<<Container, "define-gate">>}

\* One child element of the formula of the gate being defined.
FormulaChild(refs) ==
  /\ pc = "formula"
  /\ \E ref \in refs :
       LET kind == CASE RefTag(ref) = "gate" -> "gate"
                     [] RefTag(ref) = "basic-event" -> "basic"
                     [] RefTag(ref) = "house-event" -> "house"
                     [] OTHER -> "untyped"
       IN  /\ Set(ProcessFormulaChild(RA, cur.gate, cur.children_id, ref),
                  "formula")
           /\ cur' = [cur EXCEPT !.children_id = @ \cup {RefId(ref)}]
           /\ last' = Last(RefTag(ref), ref.name, RefId(ref), kind,
                           Known(RA, kind, RefId(ref)))
           /\ UNCHANGED seen

\* </define-gate>
EndGate ==
  /\ pc = "formula"
  /\ Set(RA, "ft")
  /\ cur' = [cur EXCEPT !.gate = <<>>, !.children_id = {}]
  /\ UNCHANGED <<last, seen>>

\* <define-basic-event> in a fault tree or in model data.
BasicEventDefinition(names, expressions, flavors) ==
  /\ pc \in {"ft", "md"}
  /\ \E name \in names, e \in expressions, flavor \in flavors :
       /\ Set(DefineBasicEvent(InContainer("define-basic-event"),
                               [name |-> name, expression |-> e, flavor |-> flavor]),
              pc)
       /\ last' = Last("define-basic-event", name, to_lower(trim(name)), "basic",
                       Known(RA, "basic", to_lower(trim(name))))
       /\ seen' = seen \cup {<<Container, "define-basic-event">>}
       /\ UNCHANGED cur

\* <define-house-event> in a fault tree or in model data.
HouseEventDefinition(names, constants, flavors) ==
  /\ pc \in {"ft", "md"}
  /\ \E name \in names, c \in constants, flavor \in flavors :
       /\ Set(DefineHouseEvent(InContainer("define-house-event"),
                               [name |-> name, constant |-> c, flavor |-> flavor]),
              pc)
       /\ last' = Last("define-house-event", name, to_lower(trim(name)), "house",
                       Known(RA, "house", to_lower(trim(name))))
       /\ seen' = seen \cup {<<Container, "define-house-event">>}
       /\ UNCHANGED cur

\* <define-parameter> in a fault tree or in model data.
ParameterDefinition(names, expressions) ==
  /\ pc \in {"ft", "md"}
  /\ \E name \in names, e \in expressions :
       /\ Set(DefineParameter(InContainer("define-parameter"),
                              [name |-> name, expression |-> e, flavor |-> ""]),
              pc)
       /\ last' = Last("define-parameter", name, trim(name), "parameter",
                       Known(RA, "parameter", trim(name)))
       /\ seen' = seen \cup {<<Container, "define-parameter">>}
       /\ UNCHANGED cur

\* <model-data>
BeginModelData ==
  /\ pc = "input"
  /\ Set(ProcessModelData(RA), "md")
  /\ last' = Last("model-data", <<>>, <<>>, "model-data",
                  Known(RA, "model-data", <<>>))
  /\ seen' = seen \cup {<<Container, "model-data">>}
  /\ UNCHANGED cur

\* </model-data>
EndModelData ==
  /\ pc = "md"
  /\ Set(RA, "input")
  /\ UNCHANGED <<cur, last, seen>>

\* <define-CCF-group name=...> at the top level or in a fault tree.
BeginCcfGroup(names) ==
  /\ pc \in {"input", "ft"}
  /\ \E name \in names :
       /\ Set(DefineCcfGroup(InContainer("define-CCF-group"), [name |-> name]),
              "ccf")
       /\ cur' = [cur EXCEPT !.ccf = to_lower(name), !.ret = pc]
       /\ last' = Last("define-CCF-group", name, to_lower(name), "ccf-group",
                       Known(RA, "ccf-group", to_lower(name)))
       /\ seen' = seen \cup {<<Container, "define-CCF-group">>}

\* <basic-event name=...> in the members of the CCF group.
CcfMember(names) ==
  /\ pc = "ccf"
  /\ \E name \in names :
       /\ Set(ProcessCcfMember(RA, [name |-> name], cur.ccf), "ccf")
       /\ last' = Last("ccf-member", name, to_lower(trim(name)), "basic",
                       Known(RA, "basic", to_lower(trim(name))))
       /\ UNCHANGED <<cur, seen>>

\* <distribution> or <factor level=...> of the CCF group.
CcfFactor(expressions, levels) ==
  /\ pc = "ccf"
  /\ \E e \in expressions, level \in levels :
       /\ Set(DefineCcfFactor(RA, [level |-> level, expression |-> e], cur.ccf),
              "ccf")
       /\ last' = Last("ccf-factor", <<>>, <<>>, "expression",
                       Known(RA, "expression", <<>>))
       /\ UNCHANGED <<cur, seen>>

\* </define-CCF-group>
EndCcfGroup ==
  /\ pc = "ccf"
  /\ Set(RA, cur.ret)
  /\ cur' = [cur EXCEPT !.ccf = <<>>, !.ret = "input"]
  /\ UNCHANGED <<last, seen>>

\* The last file is read: defaults, validation, set-up.
EndOfInput ==
  /\ pc = "input"
  /\ Set(FinishInput(RA), "done")
  /\ last' = Last("end-of-input", <<>>, <<>>, "none", Known(RA, "none", <<>>))
  /\ UNCHANGED <<cur, seen>>

\* The state Analyze works on.
Analysis(mt, log) ==
  [ftas_ |-> ftas_, prob_analyses_ |-> prob_analyses_,
   uncertainty_analyses_ |-> uncertainty_analyses_,
   prob_requested_ |-> prob_requested_, settings_ |-> settings_,
   mission_time_ |-> mt, written |-> log]

\* The result of a probability or uncertainty analysis: the fault tree and
\* the mission time its expressions read.
Result(ft, mt) == [tree |-> ft, mission_time |-> Mean(mt)]

\* A loop body that runs both analyses whenever probabilities are requested.
AnalyzeTreeBoth(ra, ft) ==
  LET analyzed == [ra EXCEPT !.ftas_ = Append(@, ft)]
      result == Result(ft, ra.mission_time_)
  IN  IF ra.prob_requested_
      THEN [analyzed EXCEPT !.prob_analyses_ = Append(@, result),
                            !.uncertainty_analyses_ = Append(@, result)]
      ELSE analyzed

\* The body of the loop of Analyze: the tree is handed to a new
\* FaultTreeAnalysis, which is kept in ftas_; when probabilities are
\* requested, ftaType "default" adds a probability analysis and "mc" an
\* uncertainty analysis.
AnalyzeTree(ra, ft) ==
  LET analyzed == [ra EXCEPT !.ftas_ = Append(@, ft)]
      result == Result(ft, ra.mission_time_)
  IN  IF ra.prob_requested_
      THEN IF ra.settings_.fta_type_ = "default"
           THEN [analyzed EXCEPT !.prob_analyses_ = Append(@, result)]
           ELSE IF ra.settings_.fta_type_ = "mc"
                THEN [analyzed EXCEPT !.uncertainty_analyses_ = Append(@, result)]
                ELSE analyzed
      ELSE analyzed

RECURSIVE AnalyzeFaultTrees(_, _)
\* The loop of Analyze over fault_trees_; todo holds the keys left.
AnalyzeFaultTrees(ra, todo) ==
  IF todo = {} THEN ra
  ELSE LET ft == FirstKey(todo)
       IN  AnalyzeFaultTrees(AnalyzeTree(ra, ft), todo \ {ft})

\* The body of RiskAnalysis::Analyze.
AnalyzeCall ==
  /\ LET set == SetMissionTime(mission_time_, written,
                               Written("Analyze", settings_.mission_time_,
                                       last.op,
                                       Len(ftas_) + Len(prob_analyses_)
                                         + Len(uncertainty_analyses_)))
         r == IF set.thrown = NoError
              THEN AnalyzeFaultTrees(Analysis(set.object, set.written),
                                     DOMAIN fault_trees_)
              ELSE Analysis(set.object, set.written)
     IN  /\ mission_time_' = r.mission_time_
         /\ written' = r.written
         /\ ftas_' = r.ftas_
         /\ prob_analyses_' = r.prob_analyses_
         /\ uncertainty_analyses_' = r.uncertainty_analyses_
         /\ error' = IF set.thrown = NoError THEN error ELSE set.thrown
  /\ UNCHANGED <<gates_, tbd_gates_, primary_events_, basic_events_,
                 tbd_basic_events_, tbd_house_events_, tbd_events_,
                 tbd_orig_ids_, parameters_, tbd_parameters_, fault_trees_,
                 ccf_groups_, prob_requested_, setup_, validated_,
                 orphan_primary_events_, report_level_, settings_,
                 fta, heap, cur, last, seen, input>>

\* RiskAnalysis::Analyze called once ProcessInputFiles has returned or
\* thrown.
Analyze ==
  /\ pc \in {"done", "failed"}
  /\ AnalyzeCall
  /\ pc' = "analyzed"

MaxRuns == 3

\* The calls of Analyze so far.
Runs == Cardinality({i \in DOMAIN written : written[i].by = "Analyze"})

\* RiskAnalysis::Analyze called again on the model it has analyzed.
AnalyzeAgain ==
  /\ pc = "analyzed"
  /\ Runs < MaxRuns
  /\ AnalyzeCall
  /\ pc' = "analyzed"

-----------------------------------------------------------------------------
(* Spec: the resolution of references.  Three ids: a (written "A") and b   *)
(* can be gates, a and c (written with a trailing space) can be events.    *)

Next ==
  \/ BeginInputFiles
  \/ BeginFaultTree({<<"f">>})
  \/ EndFaultTree
  \/ BeginGate(GateNodes({<<"A">>, <<"b">>}, {"or"}, {""}))
  \/ FormulaChild(Refs({<<"A">>, <<"b">>, <<"c", " ">>}, {"gate"}))
  \/ EndGate
  \/ BasicEventDefinition({<<"A">>, <<"c", " ">>}, {Float}, {""})
  \/ HouseEventDefinition({<<"A">>, <<"c", " ">>}, {"true"}, {""})
  \/ BeginCcfGroup({<<"q">>})
  \/ CcfMember({<<"A">>, <<"c", " ">>})
  \/ EndCcfGroup
  \/ EndOfInput

Spec == Init /\ [][Next]_vars

\* C32: a gate referenced with its type and never defined makes
\* ProcessInputFiles fail with "Undefined gates", whether or not
\* probabilities were requested: the end of the input leaves tbd_gates_ as
\* it is, and the first layer reports every gate in it.
C32_UndefinedGatesFail ==
  /\ [](/\ (last.op = "end-of-input" /\ tbd_gates_ # EmptyMap) =>
             /\ pc = "failed"
             /\ error.type = "ValidationError"
             /\ \A id \in DOMAIN tbd_gates_ :
                  <<heap[tbd_gates_[id]].orig_id, "Undefined gate">>
                    \in error.report
        /\ pc = "done" => tbd_gates_ = EmptyMap)
  /\ [][last'.op = "end-of-input" => tbd_gates_' = tbd_gates_]_vars

\* Without a request for probabilities the end of the input made a primary
\* event of the untyped reference c and failed for the gate b.
C32_Witness ==
  /\ pc = "failed"
  /\ last.op = "end-of-input"
  /\ ~prob_requested_
  /\ DOMAIN tbd_gates_ = {<<"b">>}
  /\ Count(primary_events_, <<"c">>)
  /\ error.report = {<<(<<"b">>), "Undefined gate">>}
\* The handles a map of children or parents holds.
Linked(links) == {links[id] : id \in DOMAIN links}

\* C36: the child link and the parent link are always created together: in
\* every state of the builder, an event is among the children of a gate
\* exactly when the gate is among the parents of the event.
C36_LinksSymmetric ==
  \A g \in DOMAIN heap : \A e \in DOMAIN heap :
    (e \in Linked(heap[g].children)) <=> (g \in Linked(heap[e].parents))

\* Without a request for probabilities the end of the input made basic
\* events of the untyped references a and c of the gate b, each linked to
\* the gate in both directions.
C36_Witness ==
  /\ pc = "done"
  /\ last.op = "end-of-input"
  /\ ~prob_requested_
  /\ DOMAIN gates_ = {<<"b">>}
  /\ DOMAIN primary_events_ = {<<"a">>, <<"c">>}
  /\ Linked(heap[gates_[<<"b">>]].children)
       = {Handle("basic", <<"a">>), Handle("basic", <<"c">>)}
  /\ Linked(heap[Handle("basic", <<"a">>)].parents) = {Handle("gate", <<"b">>)}
  /\ Linked(heap[Handle("basic", <<"c">>)].parents) = {Handle("gate", <<"b">>)}

\* The ids whose kind is known: defined, or referenced with their type.
KnownKind ==
  DOMAIN gates_ \cup DOMAIN tbd_gates_ \cup DOMAIN primary_events_
  \cup DOMAIN tbd_basic_events_ \cup DOMAIN tbd_house_events_

\* C37: while the input is being processed, an id whose kind is known is
\* never also pending as an untyped reference: after every element handed
\* to the builder the keys of tbd_events_ are disjoint from the keys of
\* gates_, tbd_gates_, primary_events_, tbd_basic_events_ and
\* tbd_house_events_.
C37_PendingAreUnknown ==
  last.op # "end-of-input" => DOMAIN tbd_events_ \cap KnownKind = {}

\* The untyped reference c of a gate was pending when the basic event c was
\* defined: c left tbd_events_ while a is still pending.
C37_Witness ==
  /\ pc = "ft"
  /\ last.op = "define-basic-event"
  /\ last.id = <<"c">>
  /\ last.known.requesters # <<>>
  /\ Count(primary_events_, <<"c">>)
  /\ DOMAIN tbd_events_ = {<<"a">>}

\* C38: tbd_orig_ids_ and tbd_events_ always have the same keys, so that the
\* lookups tbd_orig_ids_.find(id)->second made for the keys of tbd_events_
\* at the end of the input and in the report of the missing events always
\* find an entry, which is a spelling of the id.
C38_OrigIdsOfPending ==
  /\ DOMAIN tbd_orig_ids_ = DOMAIN tbd_events_
  /\ \A id \in DOMAIN tbd_orig_ids_ : to_lower(tbd_orig_ids_[id]) = id
  /\ error.type # "UndefinedBehavior"

\* Without a request for probabilities the end of the input made a basic
\* event of the untyped reference written "A", under the spelling it found
\* in tbd_orig_ids_.
C38_Witness ==
  /\ pc = "done"
  /\ last.op = "end-of-input"
  /\ Count(tbd_events_, <<"a">>)
  /\ tbd_orig_ids_[<<"a">>] = <<"A">>
  /\ Count(primary_events_, <<"a">>)
  /\ heap[primary_events_[<<"a">>]].orig_id = <<"A">>


-----------------------------------------------------------------------------
(* SpecInput: containers, the probability flag, parameters and names.      *)

ParameterNames == {<<"p">>, <<"P">>}

NextInput ==
  \/ BeginInputFiles
  \/ BeginFaultTree({<<"f">>, <<"F">>})
  \/ EndFaultTree
  \/ BeginGate(GateNodes({<<"a">>, <<"A">>}, {"null"}, {""}))
  \/ FormulaChild(Refs({<<"b">>}, {}))
  \/ EndGate
  \/ BasicEventDefinition({<<"b">>, <<"B">>}, {Float, Parameter(<<"p">>)}, {""})
  \/ HouseEventDefinition({<<"b">>, <<"B">>}, {"true"}, {""})
  \/ ParameterDefinition(ParameterNames, {Float})
  \/ BeginModelData
  \/ EndModelData
  \/ BeginCcfGroup({<<"q">>, <<"Q">>})
  \/ CcfMember({<<"b">>})
  \/ CcfFactor({Float}, {"", "1"})
  \/ EndCcfGroup
  \/ EndOfInput

SpecInput == Init /\ [][NextInput]_vars

-----------------------------------------------------------------------------
(* Properties of the resolution of references, checked under Spec *)

\* The kinds an id is bound to: as a gate in gates_ or tbd_gates_, as a basic
\* event or a house event in primary_events_, basic_events_,
\* tbd_basic_events_ or tbd_house_events_.
KindsOf(id) ==
  (IF Count(gates_, id) \/ Count(tbd_gates_, id) THEN {"gate"} ELSE {})
  \cup (IF \/ Count(basic_events_, id)
           \/ Count(tbd_basic_events_, id)
           \/ Count(primary_events_, id) /\ KindOf(primary_events_[id]) = "basic"
        THEN {"basic"} ELSE {})
  \cup (IF \/ Count(tbd_house_events_, id)
           \/ Count(primary_events_, id) /\ KindOf(primary_events_[id]) = "house"
        THEN {"house"} ELSE {})

\* The entities the maps hold for an id.
EntitiesOf(id) ==
  {m[id] : m \in {x \in {gates_, tbd_gates_, primary_events_, basic_events_,
                         tbd_basic_events_, tbd_house_events_} : Count(x, id)}}

Ids ==
  UNION {DOMAIN m : m \in {gates_, tbd_gates_, primary_events_, basic_events_,
                           tbd_basic_events_, tbd_house_events_, tbd_events_}}

EventKinds == {"gate", "basic", "house"}

\* C1: every case-folded id is bound to at most one kind among gate, basic
\* event and house event, the typed placeholders counted with the defined
\* entities.
C1_OneKindPerId == \A id \in Ids : Cardinality(KindsOf(id)) <= 1

\* An id bound to one kind was handed to the builder with another kind and
\* the builder refused it.
C1_Witness ==
  /\ last.kind \in EventKinds
  /\ KindsOf(last.id) # {}
  /\ last.kind \notin KindsOf(last.id)
  /\ error.type = "ValidationError"

\* C2: when an id with pending untyped requests gets an entity (a definition,
\* a CCF membership or a first typed reference), the one entity is a child of
\* every requesting gate, every requesting gate is a parent of it, and the id
\* has left tbd_events_ and tbd_orig_ids_.
C2_LateEventResolved ==
  (/\ last.kind \in EventKinds
   /\ last.known.requesters # <<>>
   /\ EntitiesOf(last.id) # {})
  => /\ Cardinality(EntitiesOf(last.id)) = 1
     /\ \A e \in EntitiesOf(last.id) :
          \A i \in DOMAIN last.known.requesters :
            LET g == last.known.requesters[i]
            IN  /\ Count(heap[g].children, last.id)
                /\ heap[g].children[last.id] = e
                /\ Count(heap[e].parents, IdOf(g))
                /\ heap[e].parents[IdOf(g)] = g
     /\ ~Count(tbd_events_, last.id)
     /\ ~Count(tbd_orig_ids_, last.id)

\* Two requests were pending for the id that got its entity.
C2_Witness ==
  /\ last.kind \in EventKinds
  /\ Len(last.known.requesters) >= 2
  /\ EntitiesOf(last.id) # {}
  /\ pc # "failed"

\* The gates that hold entity e as the child of the given id.
HoldersOf(h, id, e) ==
  {g \in DOMAIN h : Count(h[g].children, id) /\ h[g].children[id] = e}

\* A step that accepts a definition of the given kind for an id that is a
\* placeholder in tbd: the placeholder leaves tbd and is the entity of the id
\* in every map of defNext, and the gates that held it still hold it and are
\* its parents.
Promotion(kind, tbd, tbdNext, defNext) ==
  \A id \in DOMAIN tbd :
    (/\ last'.op \in {"define-gate", "define-basic-event",
                      "define-house-event", "ccf-member"}
     /\ last'.kind = kind
     /\ last'.id = id
     /\ pc' # "failed")
    => /\ ~Count(tbdNext, id)
       /\ \A m \in defNext : Count(m, id) /\ m[id] = tbd[id]
       /\ \A g \in HoldersOf(heap, id, tbd[id]) :
            /\ g \in HoldersOf(heap', id, tbd[id])
            /\ Count(heap'[tbd[id]].parents, IdOf(g))
            /\ heap'[tbd[id]].parents[IdOf(g)] = g

\* C3: a typed placeholder of kind K that is defined with the same kind K is
\* promoted: the same entity moves from the placeholder map to the defined
\* map, and the gates that had it as a child still have it and are still its
\* parents.
C3_PlaceholderPromoted ==
  [][/\ Promotion("gate", tbd_gates_, tbd_gates_', {gates_'})
     /\ Promotion("basic", tbd_basic_events_, tbd_basic_events_',
                  {primary_events_', basic_events_'})
     /\ Promotion("house", tbd_house_events_, tbd_house_events_',
                  {primary_events_'})]_vars

\* A gate placeholder with a parent was defined as a gate.
C3_Witness ==
  /\ last.op = "define-gate"
  /\ "gate" \in last.known.placeholder
  /\ pc # "failed"
  /\ Count(gates_, last.id)
  /\ Size(heap[gates_[last.id]].parents) >= 1

\* C5: at the end of input without a probability request every id still in
\* tbd_events_ is a basic event in primary_events_ and basic_events_, it is a
\* child of each gate that requested it and the gate is its parent, and the
\* first-layer validation does not report it as missing.
C5_UntypedBecomeBasic ==
  (last.op = "end-of-input" /\ ~prob_requested_)
  => /\ error.type \in {"none", "ValidationError"}
     /\ \A id \in DOMAIN tbd_events_ :
          /\ Count(primary_events_, id)
          /\ Count(basic_events_, id)
          /\ primary_events_[id] = basic_events_[id]
          /\ KindOf(basic_events_[id]) = "basic"
          /\ \A i \in DOMAIN tbd_events_[id] :
               LET g == tbd_events_[id][i]
                   e == basic_events_[id]
               IN  /\ Count(heap[g].children, id)
                   /\ heap[g].children[id] = e
                   /\ Count(heap[e].parents, IdOf(g))
                   /\ heap[e].parents[IdOf(g)] = g
     /\ \A m \in error.report :
          m[2] \notin {"Missing definition for Untyped event",
                       "Missing definition for Basic event",
                       "Missing definition for House event"}

\* The input ended valid, with two untyped ids never defined.
C5_Witness ==
  /\ last.op = "end-of-input"
  /\ ~prob_requested_
  /\ pc = "done"
  /\ Size(tbd_events_) >= 2

\* C9: a definition or a typed reference of kind K for an id that is defined
\* or is a typed placeholder with another kind fails with a validation error.
C9_KindClashRejected ==
  (/\ last.kind \in EventKinds
   /\ (last.known.defined \cup last.known.placeholder) \ {last.kind} # {})
  => /\ pc = "failed"
     /\ error.type = "ValidationError"

\* A typed reference to a house event met the id defined as a basic event.
C9_Witness ==
  /\ last.op = "house-event"
  /\ "basic" \in last.known.defined
  /\ pc = "failed"

-----------------------------------------------------------------------------
(* Properties of the input as a whole, checked under SpecInput *)

MissingTexts ==
  {"Missing definition for Untyped event", "Missing definition for Basic event",
   "Missing definition for House event", "Missing parameter definition"}

\* C6: at the end of input with a probability request, a reference without
\* a definition (an untyped id, a basic-event or house-event placeholder, a
\* referenced parameter) makes ProcessInputFiles fail with a validation
\* error that reports it, and no event is created for it.
C6_MissingRejected ==
  (/\ last.op = "end-of-input"
   /\ prob_requested_
   /\ \/ DOMAIN tbd_events_ # {}
      \/ DOMAIN tbd_basic_events_ # {}
      \/ DOMAIN tbd_house_events_ # {}
      \/ DOMAIN tbd_parameters_ # {})
  => /\ pc = "failed"
     /\ error.type = "ValidationError"
     /\ \E m \in error.report : m[2] \in MissingTexts
     /\ \A id \in DOMAIN tbd_events_ \cup DOMAIN tbd_basic_events_
                  \cup DOMAIN tbd_house_events_ :
          ~Count(primary_events_, id) /\ ~Count(basic_events_, id)
     /\ \A id \in DOMAIN tbd_events_ : EntitiesOf(id) = {}

\* The only thing missing at the end of input was a parameter.
C6_Witness ==
  /\ last.op = "end-of-input"
  /\ prob_requested_
  /\ DOMAIN tbd_parameters_ # {}
  /\ DOMAIN tbd_events_ = {}
  /\ DOMAIN tbd_basic_events_ = {}
  /\ DOMAIN tbd_house_events_ = {}
  /\ DOMAIN tbd_gates_ = {}
  /\ CheckAllGates(RA) = {}
  /\ DOMAIN gates_ # {}
  /\ pc = "failed"

\* The elements that request probability analysis, each with its container.
ProbabilityElements ==
  {<<"define-fault-tree", "define-basic-event">>,
   <<"define-fault-tree", "define-house-event">>,
   <<"define-fault-tree", "define-CCF-group">>,
   <<"opsa-mef", "define-CCF-group">>,
   <<"opsa-mef", "model-data">>}

\* C7: prob_requested_ is true exactly when a define-basic-event or
\* define-house-event element inside a fault tree, a model-data element or a
\* CCF group has been seen; define-gate and define-parameter elements never
\* set it, and once set it is never cleared.
C7_ProbRequested ==
  /\ [](prob_requested_ <=> seen \cap ProbabilityElements # {})
  /\ [][prob_requested_ => prob_requested_']_vars

\* An empty model-data element alone has set the flag.
C7_Witness ==
  /\ prob_requested_
  /\ seen = {<<"opsa-mef", "model-data">>}
  /\ pc = "done"

Definitions ==
  {"define-gate", "define-basic-event", "define-house-event",
   "define-fault-tree", "define-CCF-group", "define-parameter"}

\* C8: a definition of a gate, basic event, house event, fault tree or CCF
\* group whose case-folded name is already defined with that kind fails with
\* a validation error; a parameter fails only when its name as written is
\* already defined, so that p and P are both accepted.
C8_UniqueDefinitions ==
  /\ (last.op \in Definitions /\ last.kind \in last.known.defined)
     => (pc = "failed" /\ error.type = "ValidationError")
  /\ (/\ last.op = "define-parameter"
      /\ last.known.folded
      /\ last.kind \notin last.known.defined)
     => (error.type = "none" /\ Count(parameters_, last.id))

\* p and P are both defined, and a gate written in another case than the
\* gate defined before it was refused.
C8_Witness ==
  /\ Count(parameters_, <<"p">>)
  /\ Count(parameters_, <<"P">>)
  /\ last.op = "define-gate"
  /\ Count(gates_, last.id)
  /\ heap[gates_[last.id]].orig_id # trim(last.name)
  /\ pc = "failed"
  /\ error.type = "ValidationError"

\* C33: after a gate, a basic event or a house event is defined, its display
\* name is the spelling of the defining element, whatever the spelling of
\* the references processed before the definition.
C33_DisplayName ==
  (/\ last.op \in {"define-gate", "define-basic-event", "define-house-event"}
   /\ pc # "failed")
  => LET h == IF last.kind = "gate" THEN gates_[last.id]
              ELSE primary_events_[last.id]
     IN  heap[h].orig_id = trim(last.name)
-----------------------------------------------------------------------------
(* SpecGates: the gates of one fault tree, of every type, over children    *)
(* that are never defined.                                                 *)

NextGates ==
  \/ BeginInputFiles
  \/ BeginFaultTree({<<"f">>})
  \/ EndFaultTree
  \/ BeginGate(GateNodes({<<"a">>, <<"b">>}, gate_types_, {""}))
  \/ FormulaChild({Ref("event", name, "") : name \in {<<"b">>, <<"c">>, <<"d">>}})
  \/ EndGate
  \/ EndOfInput

SpecGates == Init /\ [][NextGates]_vars

\* The number of children of a gate of the model.
NumChildren(id) == Size(heap[gates_[id]].children)

\* C10: after ProcessInputFiles succeeds every defined gate has at least one
\* child, an AND, OR, NAND or NOR gate at least 2, a NOT or NULL gate exactly
\* 1 and an XOR gate exactly 2.
C10_GateArity ==
  pc = "done" =>
    \A id \in DOMAIN gates_ :
      LET type == heap[gates_[id]].type
      IN  /\ NumChildren(id) >= 1
          /\ type \in {"and", "or", "nand", "nor"} => NumChildren(id) >= 2
          /\ type \in {"not", "null"} => NumChildren(id) = 1
          /\ type = "xor" => NumChildren(id) = 2

\* The input ended valid with an XOR gate over a NOT gate.
C10_Witness ==
  /\ pc = "done"
  /\ Count(gates_, <<"a">>)
  /\ Count(gates_, <<"b">>)
  /\ heap[gates_[<<"a">>]].type = "xor"
  /\ heap[gates_[<<"b">>]].type = "not"
  /\ Count(heap[gates_[<<"a">>]].children, <<"b">>)

-----------------------------------------------------------------------------
(* SpecFlavor: one fault tree with a gate that can be an INHIBIT gate, a    *)
(* gate flavored conditional, and basic events with and without the flavor. *)

NextFlavor ==
  \/ BeginInputFiles
  \/ BeginFaultTree({<<"f">>})
  \/ EndFaultTree
  \/ BeginGate({node \in GateNodes({<<"a">>}, {"inhibit", "and", "or"},
                                    {"", "inhibit"})
                         \cup GateNodes({<<"b">>}, {"null"}, {"conditional"}) :
                  node.min = 1})
  \/ FormulaChild({Ref("event", name, "") :
                     name \in {<<"b">>, <<"c">>, <<"d">>}})
  \/ EndGate
  \/ BasicEventDefinition({<<"c">>, <<"d">>}, {Float}, {"", "conditional"})
  \/ EndOfInput

SpecFlavor == Init /\ [][NextFlavor]_vars

\* The gate is an INHIBIT gate: by its operator, or an AND gate flavored
\* inhibit.
IsInhibit(g) ==
  \/ heap[g].type = "inhibit"
  \/ heap[g].type = "and" /\ heap[g].flavor = "inhibit"

\* The children of a gate that are basic or house events flavored
\* conditional.
ConditionalChildren(g) ==
  {x \in DOMAIN heap[g].children :
     /\ KindOf(heap[g].children[x]) \in {"basic", "house"}
     /\ heap[heap[g].children[x]].flavor = "conditional"}

\* C12: after ProcessInputFiles succeeds every INHIBIT gate (operator
\* inhibit, or operator and flavored inhibit) has exactly 2 children, exactly
\* one of them an event flavored conditional.
C12_InhibitGate ==
  pc = "done" =>
    \A id \in DOMAIN gates_ :
      IsInhibit(gates_[id]) =>
        /\ NumChildren(id) = 2
        /\ Cardinality(ConditionalChildren(gates_[id])) = 1

\* The input ended valid with an AND gate flavored inhibit over a
\* conditional event and a gate that is itself flavored conditional.
C12_Witness ==
  /\ pc = "done"
  /\ Count(gates_, <<"a">>)
  /\ heap[gates_[<<"a">>]].type = "and"
  /\ IsInhibit(gates_[<<"a">>])
  /\ Count(heap[gates_[<<"a">>]].children, <<"b">>)
  /\ heap[heap[gates_[<<"a">>]].children[<<"b">>]].flavor = "conditional"

\* C13: after ProcessInputFiles succeeds no gate other than an INHIBIT gate
\* has a child basic event flavored conditional.
C13_ConditionalOnlyUnderInhibit ==
  pc = "done" =>
    \A id \in DOMAIN gates_ :
      ~IsInhibit(gates_[id]) =>
        \A x \in DOMAIN heap[gates_[id]].children :
          LET c == heap[gates_[id]].children[x]
          IN  ~(KindOf(c) = "basic" /\ heap[c].flavor = "conditional")

\* The defined primary events that no gate has among its children.
ChildOfNoGate ==
  {primary_events_[id] : id \in
     {x \in DOMAIN primary_events_ :
        \A g \in DOMAIN heap :
          KindOf(g) = "gate" =>
            \A c \in DOMAIN heap[g].children :
              heap[g].children[c] # primary_events_[x]}}

\* C35: orphan primary events are warnings.  After the validation has
\* succeeded orphan_primary_events_ holds exactly the defined basic and house
\* events that are a child of no gate; a failure of ProcessInputFiles at the
\* end of the input is never the LogicError of parents(), and nothing was
\* gathered when the validation failed.
C35_OrphansAreWarnings ==
  /\ pc \in {"done", "analyzed"} => orphan_primary_events_ = ChildOfNoGate
  /\ pc \notin {"done", "analyzed"} => orphan_primary_events_ = {}
  /\ (last.op = "end-of-input" /\ pc = "failed") => error.type = "ValidationError"

\* The basic event d is the child of the gate b and the basic event c is an
\* orphan: the input was accepted and c alone was gathered.
C35_Witness ==
  /\ pc = "done"
  /\ last.op = "end-of-input"
  /\ DOMAIN gates_ = {<<"b">>}
  /\ DOMAIN heap[gates_[<<"b">>]].children = {<<"d">>}
  /\ DOMAIN primary_events_ = {<<"c">>, <<"d">>}
  /\ orphan_primary_events_ = {Handle("basic", <<"c">>)}

-----------------------------------------------------------------------------
(* SpecRepeat: two gates whose formulas name one id in two spellings and   *)
(* under every type tag, resolved in the formula, by a later definition or *)
(* at the end of input.                                                     *)

NextRepeat ==
  \/ BeginInputFiles
  \/ BeginFaultTree({<<"f">>})
  \/ EndFaultTree
  \/ BeginGate({node \in GateNodes({<<"g">>, <<"h">>}, {"or"}, {""}) :
                  node.min = 1})
  \/ FormulaChild(Refs({<<"x">>, <<"X">>, <<"y">>}, {"basic-event"}))
  \/ EndGate
  \/ BasicEventDefinition({<<"x">>}, {Float}, {""})
  \/ EndOfInput

SpecRepeat == Init /\ [][NextRepeat]_vars

\* While input is read, the gates waiting for an id are distinct and none has
\* the id as a child yet.
RequestersOnce ==
  last.op # "end-of-input" =>
  \A id \in DOMAIN tbd_events_ :
    \A i \in DOMAIN tbd_events_[id] :
      /\ ~Count(heap[tbd_events_[id][i]].children, id)
      /\ \A j \in DOMAIN tbd_events_[id] :
           tbd_events_[id][i] = tbd_events_[id][j] => i = j

\* A child element whose case-folded id the formula has named already is
\* refused with a validation error, and nothing is attached.
RepeatedChildRefused ==
  (pc = "formula" /\ pc' # "ft" /\ last'.id \in cur.children_id) =>
    /\ error'.type = "ValidationError"
    /\ heap' = heap
    /\ tbd_events_' = tbd_events_

\* When the builder goes on after an id stops waiting, or creates the
\* waiting ids at the end of input, every requesting gate has the one entity
\* of that id as its child and is a parent of it.
LateChildAttached ==
  \A id \in DOMAIN tbd_events_ :
    (pc' # "failed" /\ (~Count(tbd_events_', id) \/ pc' = "done")) =>
      \E e \in DOMAIN heap' :
        /\ IdOf(e) = id
        /\ \A i \in DOMAIN tbd_events_[id] :
             LET g == tbd_events_[id][i]
             IN  /\ Count(heap'[g].children, id)
                 /\ heap'[g].children[id] = e
                 /\ Count(heap'[e].parents, IdOf(g))

\* C14: no event is repeated as a direct child of one gate: a formula that
\* names a case-folded id twice, in any spelling and under any type tag,
\* fails with a validation error, and a child attached late is attached to
\* each requesting gate exactly once (no gate is ever handed a child it
\* already has).
C14_NoRepeatedChild ==
  /\ [](error.type # "LogicError" /\ RequestersOnce)
  /\ [][RepeatedChildRefused /\ LateChildAttached]_vars

\* A formula was refused for naming as a basic event, spelled X, the id that
\* it had named before untyped, spelled x.
C14_Witness ==
  /\ pc = "failed"
  /\ error.what = "repeated child"
  /\ last.op = "basic-event"
  /\ last.name = <<"X">>
  /\ Count(tbd_orig_ids_, <<"x">>)
  /\ tbd_orig_ids_[<<"x">>] = <<"x">>
  /\ cur.gate \in {tbd_events_[<<"x">>][i] : i \in DOMAIN tbd_events_[<<"x">>]}

\* Two gates received, at the end of input, the basic event created for the
\* id both had named untyped.
C14_WitnessLate ==
  /\ pc = "done"
  /\ \E e \in DOMAIN heap :
       /\ Count(heap[e].parents, <<"g">>)
       /\ Count(heap[e].parents, <<"h">>)
       /\ Count(tbd_events_, IdOf(e))
       /\ Len(tbd_events_[IdOf(e)]) = 2

-----------------------------------------------------------------------------
(* SpecParams: parameters defined by a constant or by a reference to a     *)
(* parameter (itself, the other one, or one that is never defined), in a   *)
(* fault tree or in model data, with and without a basic event.            *)

NextParams ==
  \/ BeginInputFiles
  \/ BeginFaultTree({<<"f">>})
  \/ EndFaultTree
  \/ ParameterDefinition({<<"p">>, <<"q">>},
                         {Float, Parameter(<<"p">>), Parameter(<<"q">>),
                          Parameter(<<"r">>)})
  \/ BasicEventDefinition({<<"b">>}, {Float, Parameter(<<"p">>)}, {""})
  \/ BeginModelData
  \/ EndModelData
  \/ BeginCcfGroup({<<"g">>})
  \/ CcfMember({<<"b">>})
  \/ CcfFactor({Float}, {""})
  \/ EndCcfGroup
  \/ EndOfInput

SpecParams == Init /\ [][NextParams]_vars

\* C15: whenever ProcessInputFiles succeeds, every referenced parameter is
\* defined: tbd_parameters_ is empty, whether or not probabilities were
\* requested.
C15_ParametersDefined == pc = "done" => tbd_parameters_ = EmptyMap

-----------------------------------------------------------------------------
(* SpecReport: models with several violations of the first layer at once:  *)
(* typed references to gates never defined, AND gates with fewer than two  *)
(* children, references to events and parameters never defined.            *)

NextReport ==
  \/ BeginInputFiles
  \/ BeginFaultTree({<<"f">>})
  \/ EndFaultTree
  \/ BeginGate({node \in GateNodes({<<"a">>, <<"B">>}, {"and"}, {""}) :
                  node.min = 1})
  \/ FormulaChild({Ref("gate", <<"c">>, ""), Ref("gate", <<"d">>, ""),
                   Ref("event", <<"X">>, ""), Ref("house-event", <<"h">>, ""),
                   Ref("basic-event", <<"e">>, "")})
  \/ EndGate
  \/ BasicEventDefinition({<<"k">>},
                          {Float, Parameter(<<"p">>), Parameter(<<"q">>)}, {""})
  \/ EndOfInput

SpecReport == Init /\ [][NextReport]_vars

\* The names the validation error of the first layer reports.
Reported == {message[1] : message \in error.report}

\* C16: the validation error of the first layer names every offending
\* element, not only the first: every gate referenced with its type and
\* never defined, every gate with a wrong number of children and, when
\* probabilities are requested, every event and every parameter without a
\* definition.
C16_AllDiagnostics ==
  (pc = "failed" /\ last.op = "end-of-input" /\ error.what = "first layer") =>
    /\ \A id \in DOMAIN tbd_gates_ : heap[tbd_gates_[id]].orig_id \in Reported
    /\ \A id \in DOMAIN gates_ :
         (heap[gates_[id]].type = "and" /\ NumChildren(id) < 2) =>
           heap[gates_[id]].orig_id \in Reported
    /\ prob_requested_ =>
         /\ \A id \in DOMAIN tbd_basic_events_ :
              heap[tbd_basic_events_[id]].orig_id \in Reported
         /\ \A id \in DOMAIN tbd_house_events_ :
              heap[tbd_house_events_[id]].orig_id \in Reported
         /\ \A id \in DOMAIN tbd_events_ : tbd_orig_ids_[id] \in Reported
         /\ \A name \in DOMAIN tbd_parameters_ : name \in Reported

\* One validation error for two gates with too few children, a gate never
\* defined, an untyped event and a parameter without definition.
C16_Witness ==
  /\ pc = "failed"
  /\ last.op = "end-of-input"
  /\ error.what = "first layer"
  /\ prob_requested_
  /\ {<<"a">>, <<"B">>, <<"c">>, <<"X">>, <<"p">>} \subseteq Reported
  /\ NumChildren(<<"a">>) = 1
  /\ NumChildren(<<"b">>) = 0
  /\ Count(tbd_gates_, <<"c">>)
  /\ Count(tbd_events_, <<"x">>)
  /\ Count(tbd_parameters_, <<"p">>)

-----------------------------------------------------------------------------
(* SpecTrees: two fault trees and a CCF group; a gate can be its own child *)
(* or the child of the other gate, so that either tree can hold a cycle.   *)

NextTrees ==
  \/ BeginInputFiles
  \/ BeginFaultTree({<<"f">>, <<"g">>})
  \/ EndFaultTree
  \/ BeginGate({node \in GateNodes({<<"a">>, <<"b">>}, {"null"}, {""}) :
                  node.min = 1})
  \/ FormulaChild({Ref("gate", <<"a">>, ""), Ref("gate", <<"b">>, ""),
                   Ref("event", <<"e">>, "")})
  \/ EndGate
  \/ BeginCcfGroup({<<"q">>})
  \/ CcfMember({<<"e">>})
  \/ EndCcfGroup
  \/ EndOfInput

SpecTrees == Init /\ [][NextTrees]_vars

\* C17: when the validation of one fault tree fails, every other fault tree
\* and every CCF group has still been validated when ProcessInputFiles
\* reports the failure.
C17_OtherTreesValidated ==
  (pc = "failed" /\ error.what = "cyclic fault tree") =>
    /\ \A id \in DOMAIN fault_trees_ : Handle("fault-tree", id) \in validated_
    /\ \A id \in DOMAIN ccf_groups_ : Handle("ccf-group", id) \in validated_

\* C21: the expansion of CCF groups occurs after validation: a CCF model is
\* applied or a fault tree set up only when both layers of validation have
\* completed without error, every ApplyModel comes before every
\* SetupForAnalysis of a fault tree, and when validation fails nothing is
\* applied or set up.
C21_SetupAfterValidation ==
  /\ setup_ # <<>> =>
       /\ pc = "done"
       /\ error = NoError
       /\ \A id \in DOMAIN fault_trees_ : Handle("fault-tree", id) \in validated_
       /\ \A id \in DOMAIN ccf_groups_ : Handle("ccf-group", id) \in validated_
  /\ \A i, j \in DOMAIN setup_ :
       (KindOf(setup_[i]) = "fault-tree" /\ KindOf(setup_[j]) = "ccf-group")
         => j < i
  /\ pc = "done" =>
       /\ {setup_[i] : i \in DOMAIN setup_} =
            {Handle("ccf-group", id) : id \in DOMAIN ccf_groups_}
            \cup {Handle("fault-tree", id) : id \in DOMAIN fault_trees_}
       /\ \A i, j \in DOMAIN setup_ : setup_[i] = setup_[j] => i = j
  /\ pc = "failed" => setup_ = <<>>

\* The CCF group q was applied before the fault trees f and g were set up.
C21_Witness ==
  /\ pc = "done"
  /\ setup_ = <<Handle("ccf-group", <<"q">>), Handle("fault-tree", <<"f">>),
                Handle("fault-tree", <<"g">>)>>
  /\ gates_ # EmptyMap

-----------------------------------------------------------------------------
(* SpecCcf: two CCF groups and the model data; the basic event b, written  *)
(* b or B, and the basic event c can be members and can be defined.        *)

NextCcf ==
  \/ BeginInputFiles
  \/ BeginCcfGroup({<<"q">>, <<"r">>})
  \/ CcfMember({<<"b">>, <<"B">>, <<"c">>})
  \/ CcfFactor({Float}, {"1"})
  \/ EndCcfGroup
  \/ BeginModelData
  \/ BasicEventDefinition({<<"b">>, <<"B">>}, {Float}, {""})
  \/ EndModelData
  \/ EndOfInput

SpecCcf == Init /\ [][NextCcf]_vars

\* The places (group, position) where a basic event is a member.
MemberPlaces(event) ==
  UNION {{<<id, i>> : i \in {k \in DOMAIN ccf_groups_[id] :
                                  ccf_groups_[id][k] = event}} :
         id \in DOMAIN ccf_groups_}

\* C22: a basic event belongs to at most one CCF group: naming as a member,
\* or defining, a case-folded id that is already a member or a defined basic
\* event fails with a validation error, in either order, so no basic event
\* is a member in two places.
C22_OneCcfGroup ==
  /\ (/\ last.op \in {"ccf-member", "define-basic-event"}
      /\ "basic" \in last.known.defined)
       => (pc = "failed" /\ error.type = "ValidationError")
  /\ \A event \in DOMAIN heap : Cardinality(MemberPlaces(event)) <= 1

\* The definition of B was refused because b is a member of the group q.
C22_Witness ==
  /\ pc = "failed"
  /\ error.what = "event is doubly defined"
  /\ last.op = "define-basic-event"
  /\ last.name = <<"B">>
  /\ MemberPlaces(Handle("basic", <<"b">>)) = {<<(<<"q">>), 1>>}

-----------------------------------------------------------------------------
(* SpecAnalyze: two fault trees whose gates can form a cycle, and a call   *)
(* of Analyze after ProcessInputFiles has returned or thrown.              *)

NextAnalyze ==
  \/ BeginInputFiles
  \/ BeginFaultTree({<<"f">>, <<"g">>})
  \/ EndFaultTree
  \/ BeginGate({node \in GateNodes({<<"a">>, <<"b">>}, {"null"}, {""}) :
                  node.min = 1})
  \/ FormulaChild({Ref("gate", <<"a">>, ""), Ref("gate", <<"b">>, ""),
                   Ref("event", <<"a">>, ""), Ref("event", <<"e">>, "")})
  \/ EndGate
  \/ EndOfInput
  \/ Analyze

SpecAnalyze == Init /\ [][NextAnalyze]_vars

\* C18: Analyze analyses a fault tree only if the most recent
\* ProcessInputFiles completed without a validation error; called after a
\* failed ProcessInputFiles it analyses nothing.
C18_AnalyzeAfterSuccessOnly ==
  (pc = "analyzed" /\ error.type = "ValidationError") => ftas_ = <<>>

RECURSIVE GatesBelow(_, _)
\* The gates reached from gate g over at most n child links.
GatesBelow(g, n) ==
  IF n = 0 THEN {}
  ELSE LET below == {heap[g].children[c] : c \in DOMAIN heap[g].children}
                    \cap {h \in DOMAIN heap : KindOf(h) = "gate"}
       IN  below \cup UNION {GatesBelow(h, n - 1) : h \in below}

\* The gates of the model that reach themselves through child links.
CyclicGates ==
  {id \in DOMAIN gates_ :
     gates_[id] \in GatesBelow(gates_[id], Cardinality(DOMAIN gates_))}

RECURSIVE ParametersBelow(_, _)
\* The parameters reached from the parameter `name` over at most n
\* references.
ParametersBelow(name, n) ==
  IF n = 0 \/ ~Count(heap, Handle("parameter", name)) THEN {}
  ELSE LET below == ParametersIn(heap[Handle("parameter", name)].expression)
       IN  below \cup UNION {ParametersBelow(next, n - 1) : next \in below}

\* The defined parameters whose expression reaches the parameter itself.
CyclicParameters ==
  {name \in DOMAIN parameters_ :
     name \in ParametersBelow(name, Cardinality(DOMAIN parameters_))}

\* C20: a model in which the expression of a parameter reaches that same
\* parameter, a parameter defined by a reference to itself included, is
\* never accepted: ProcessInputFiles fails with a validation error, and no
\* CCF model is applied and no fault tree set up for analysis.
C20_ParameterCycleFails ==
  CyclicParameters # {} =>
    /\ pc # "done"
    /\ setup_ = <<>>
    /\ last.op = "end-of-input" => error.type = "ValidationError"

\* The model with a CCF group and the parameter p defined as a reference to
\* p was rejected for the cycle, and nothing was set up.
C20_Witness ==
  /\ pc = "failed"
  /\ error.what = "cyclic parameter reference"
  /\ Count(parameters_, <<"p">>)
  /\ heap[parameters_[<<"p">>]].expression = Parameter(<<"p">>)
  /\ Count(ccf_groups_, <<"g">>)
  /\ setup_ = <<>>

-----------------------------------------------------------------------------
(* SpecOrder: an input fixed ahead, read one declaration at a time, and     *)
(* the same declarations read as a whole in every other order.              *)

\* A declaration: a definition with the container element it is a child of
\* and, for a gate, its type and the child references of its formula.
Declaration(elem, container, name, type, events) ==
  [elem |-> elem, container |-> container, name |-> name, type |-> type,
   events |-> events]

\* DefineGate as a whole: the definition and then its formula.
DefineGateWithFormula(ra, gate_node, ft, events) ==
  LET gate == Handle("gate", to_lower(trim(gate_node.name)))
      Formula(r) == ProcessFormula(r, gate, events)
  IN  Then(DefineGate(ra, gate_node, ft), Formula)

\* The dispatch on the name of a child element of a fault tree or of
\* model data.
DefineElement(ra, d, ft) ==
  CASE d.elem = "define-gate" ->
         DefineGateWithFormula(
           ra, [name |-> d.name, type |-> d.type, min |-> 1, flavor |-> ""],
           ft, d.events)
    [] d.elem = "define-basic-event" ->
         DefineBasicEvent(ra, [name |-> d.name, expression |-> Float,
                               flavor |-> ""])
    [] d.elem = "define-house-event" ->
         DefineHouseEvent(ra, [name |-> d.name, constant |-> "true",
                               flavor |-> ""])

\* One declaration read by ProcessInputFile: inside model data, or inside
\* the fault tree `tree`, which the declaration opens when `open` holds.
ReadDeclaration(ra, d, tree, open) ==
  LET InModelData(r) == DefineElement(r, d, <<>>)
      InFaultTree(r) ==
        DefineElement(FaultTreeElement(r, d.elem), d, to_lower(tree))
  IN  IF d.container = "model-data"
      THEN Then(ProcessModelData(ra), InModelData)
      ELSE Then(IF open THEN DefineFaultTree(ra, [name |-> tree]) ELSE ra,
                InFaultTree)

TreeNumbers == <<"1", "2", "3", "4", "5">>

\* The fault tree of the k-th declaration: the one tree of the file, or a
\* tree of its own in a file of its own.
TreeOf(layout, k) ==
  IF layout = "one-file" THEN <<"f">> ELSE <<"t", TreeNumbers[k]>>

RECURSIVE ReadDeclarations(_, _, _, _, _)
\* The loop of ProcessInputFiles over the declarations in the given order,
\* from position i on.
ReadDeclarations(ra, decls, order, i, layout) ==
  IF Failed(ra) \/ i > Len(order) THEN ra
  ELSE ReadDeclarations(
         ReadDeclaration(ra, decls[order[i]], TreeOf(layout, order[i]),
                         layout # "one-file" \/ i = 1),
         decls, order, i + 1, layout)

\* ProcessInputFiles on a new RiskAnalysis.
ProcessInputFiles(decls, order, layout) ==
  Then(ReadDeclarations(NewRiskAnalysis, decls, order, 1, layout), FinishInput)

MaxDeclarations == 3

\* Gates a and b over the id c and over each other, events and a gate that
\* define c.
Declarations ==
  {Declaration("define-gate", "define-fault-tree", <<"a">>, "null", <<ref>>) :
     ref \in Refs({<<"c">>}, {}) \cup {Ref("event", <<"b">>, "")}}
  \cup
  {Declaration("define-gate", "define-fault-tree", <<"b">>, "null", <<ref>>) :
     ref \in {Ref("event", <<"c">>, ""), Ref("gate", <<"c">>, ""),
              Ref("house-event", <<"c">>, ""), Ref("event", <<"a">>, "")}}
  \cup
  {Declaration("define-gate", "define-fault-tree", <<"c">>, "null",
               <<Ref("event", <<"d">>, "")>>)}
  \cup
  {Declaration(elem, container, <<"c">>, "", <<>>) :
     elem \in {"define-basic-event", "define-house-event"},
     container \in {"define-fault-tree", "model-data"}}

InitOrder ==
  /\ InitBuilder
  /\ \E layout \in {"one-file", "file-per-declaration"} :
       input \in [decls : [1..MaxDeclarations ->
                             IF layout = "one-file"
                             THEN {d \in Declarations :
                                     d.container = "define-fault-tree"}
                             ELSE Declarations],
                  layout : {layout}]

\* The next declaration of the input is read.
Declare ==
  /\ pc = "input"
  /\ cur.decl < Len(input.decls)
  /\ LET k == cur.decl + 1
         d == input.decls[k]
         id == to_lower(trim(d.name))
         kind == CASE d.elem = "define-gate" -> "gate"
                   [] d.elem = "define-basic-event" -> "basic"
                   [] d.elem = "define-house-event" -> "house"
     IN  /\ Set(ReadDeclaration(RA, d, TreeOf(input.layout, k),
                                input.layout # "one-file" \/ k = 1),
                "input")
         /\ cur' = [cur EXCEPT !.decl = k]
         /\ last' = Last(d.elem, d.name, id, kind, Known(RA, kind, id))
         /\ seen' = seen \cup {<<d.container, d.elem>>}

NextOrder ==
  \/ BeginInputFiles
  \/ Declare
  \/ EndOfInput

SpecOrder == InitOrder /\ [][NextOrder]_vars

\* What ProcessInputFiles leaves behind: failure, or the kind of every id
\* and the children of every gate.
Outcome(ra) ==
  IF Failed(ra) THEN [success |-> FALSE, kinds |-> {}, children |-> {}]
  ELSE [success |-> TRUE,
        kinds |->
          {<<id, "gate">> : id \in DOMAIN ra.gates_}
          \cup {<<id, KindOf(ra.primary_events_[id])>> :
                  id \in DOMAIN ra.primary_events_},
        children |->
          UNION {{<<id, x, KindOf(ra.heap[ra.gates_[id]].children[x])>> :
                    x \in DOMAIN ra.heap[ra.gates_[id]].children} :
                 id \in DOMAIN ra.gates_}]

\* The orders in which n declarations can be read.
Orders(n) ==
  {p \in [1..n -> 1..n] : \A i, j \in 1..n : p[i] = p[j] => i = j}

\* C4: the declarations read so far, read in any other order, make
\* ProcessInputFiles succeed or fail alike and, when it succeeds, bind every
\* id to the same kind and give every gate the same children.
C4_OrderIndependent ==
  pc \in {"done", "failed"} =>
    \A order \in Orders(cur.decl) :
      Outcome(ProcessInputFiles(input.decls, order, input.layout)) = Outcome(RA)

\* The input was valid although gate a referred to c, without a type, before
\* a house event defined c in another file.
C4_Witness ==
  /\ pc = "done"
  /\ cur.decl = 3
  /\ input.layout = "file-per-declaration"
  /\ input.decls[1].elem = "define-gate"
  /\ input.decls[1].events = <<Ref("event", <<"c">>, "")>>
  /\ input.decls[3].elem = "define-house-event"
  /\ Count(gates_, <<"b">>)
  /\ <<<<"c">>, "house">> \in Outcome(RA).kinds

-----------------------------------------------------------------------------
(* SpecExpressions: parameters p and q defined by a constant, a reference,  *)
(* a deviate over a reference, or an expression the builder does not        *)
(* support, before and after they are referenced.                           *)

NextExpressions ==
  \/ BeginInputFiles
  \/ BeginFaultTree({<<"f">>})
  \/ EndFaultTree
  \/ BeginModelData
  \/ EndModelData
  \/ ParameterDefinition({<<"p">>, <<"q">>, <<"p", " ">>},
                         {Float, Parameter(<<"p">>), Parameter(<<"q">>),
                          Expr("uniform-deviate", <<>>,
                               <<Parameter(<<"q">>), Float>>),
                          Expr("switch", <<>>, <<>>)})
  \/ BasicEventDefinition({<<"b">>}, {Parameter(<<"p">>)}, {""})
  \/ EndOfInput

SpecExpressions == Init /\ [][NextExpressions]_vars

\* The parameters of parameters_ that have no expression.
WithoutExpression ==
  {name \in DOMAIN parameters_ :
     heap[parameters_[name]].expression = NoExpression}

\* No parameter's expression is set twice, the parameters referenced and not
\* defined have no expression, and no name is both defined and referenced
\* as undefined.
ParametersSetAtMostOnce ==
  /\ error.type # "LogicError"
  /\ \A name \in DOMAIN tbd_parameters_ :
       heap[tbd_parameters_[name]].expression = NoExpression
  /\ DOMAIN parameters_ \cap DOMAIN tbd_parameters_ = {}

\* C29, as stated: the builder never sets the expression of a parameter
\* twice; every parameter of parameters_ has its expression, set once, every
\* parameter of tbd_parameters_ has none, and the two maps share no name.
C29_ExpressionSetOnce ==
  /\ ParametersSetAtMostOnce
  /\ WithoutExpression = {}

\* C29, amended: as stated, except that a define-parameter whose expression
\* the builder refuses leaves its parameter in parameters_ without an
\* expression; ProcessInputFiles has failed then.
C29_ExpressionSetOnceUnlessRefused ==
  /\ ParametersSetAtMostOnce
  /\ WithoutExpression # {} =>
       /\ pc = "failed"
       /\ error.type = "ValidationError"
       /\ last.op = "define-parameter"
       /\ WithoutExpression = {last.id}

\* q was defined over a reference to p, and p, a placeholder until then, was
\* defined afterwards: both have their expression, nothing is left to define.
C29_Witness ==
  /\ pc \in {"ft", "md"}
  /\ last.op = "define-parameter"
  /\ last.id = <<"p">>
  /\ "parameter" \in last.known.placeholder
  /\ DOMAIN parameters_ = {<<"p">>, <<"q">>}
  /\ tbd_parameters_ = EmptyMap
  /\ heap[parameters_[<<"q">>]].expression.op = "uniform-deviate"
  /\ heap[parameters_[<<"p">>]].expression = Float

-----------------------------------------------------------------------------
(* SpecResults: two fault trees, a basic event that requests probabilities, *)
(* every mission time and ftaType of the settings, and a call of Analyze.   *)

MaxTime == 2

\* The settings the caller configured before ProcessInputFiles.
ConfiguredSettings ==
  [mission_time_ : 0..MaxTime, fta_type_ : {"default", "mc", "bdd"}]

InitResults ==
  /\ InitRiskAnalysis
  /\ fta = NoFta
  /\ input = NoInput
  /\ settings_ \in ConfiguredSettings

NextResults ==
  \/ BeginInputFiles
  \/ BeginFaultTree({<<"B">>, <<"a">>})
  \/ EndFaultTree
  \/ BeginGate({node \in GateNodes({<<"g">>, <<"h">>}, {"null"}, {""}) :
                  node.min = 1})
  \/ FormulaChild({Ref("event", <<"e">>, "")})
  \/ EndGate
  \/ BasicEventDefinition({<<"e">>}, {Float}, {""})
  \/ EndOfInput
  \/ Analyze

SpecResults == InitResults /\ [][NextResults]_vars

\* The entries of written made by one caller.
WrittenBy(by) == {i \in DOMAIN written : written[i].by = by}

\* C27: the mission time is set once by ProcessInputFiles, before any
\* element of the input is processed, and once by Analyze, before the first
\* analysis, both times to the mission time of the settings; every
\* probability and uncertainty analysis reads that value.
C27_MissionTimeSetOnce ==
  /\ pc # "start" =>
       /\ WrittenBy("ProcessInputFiles") = {1}
       /\ written[1] = Written("ProcessInputFiles", settings_.mission_time_,
                               "none", 0)
  /\ pc \notin {"start", "analyzed"} =>
       (Len(written) = 1 /\ Mean(mission_time_) = settings_.mission_time_)
  /\ pc = "analyzed" =>
       /\ Len(written) = 2
       /\ written[2].by = "Analyze"
       /\ written[2].time = settings_.mission_time_
       /\ written[2].analyses = 0
       /\ Mean(mission_time_) = settings_.mission_time_
       /\ \A i \in DOMAIN prob_analyses_ :
            prob_analyses_[i].mission_time = settings_.mission_time_
       /\ \A i \in DOMAIN uncertainty_analyses_ :
            uncertainty_analyses_[i].mission_time = settings_.mission_time_

\* Two probability analyses were made with the mission time 2, which was
\* set twice: by ProcessInputFiles and by Analyze.
C27_Witness ==
  /\ pc = "analyzed"
  /\ settings_.mission_time_ = 2
  /\ Len(written) = 2
  /\ Len(prob_analyses_) = 2
  /\ prob_analyses_[2].mission_time = 2
  /\ last.op # "none"

\* The fault trees of a sequence of analysis results.
TreesOf(analyses) == [i \in DOMAIN analyses |-> analyses[i].tree]

\* C30: Analyze makes one fault tree analysis per fault tree, in ascending
\* order of the case-folded ids; with probabilities requested it makes one
\* probability analysis per tree when ftaType is "default" and one
\* uncertainty analysis per tree when it is "mc"; otherwise neither.
C30_OneResultPerTree ==
  pc = "analyzed" =>
    /\ Len(ftas_) = Cardinality(DOMAIN fault_trees_)
    /\ {ftas_[i] : i \in DOMAIN ftas_} = DOMAIN fault_trees_
    /\ \A i, j \in DOMAIN ftas_ : i < j => StringLess(ftas_[i], ftas_[j])
    /\ TreesOf(prob_analyses_) =
         IF prob_requested_ /\ settings_.fta_type_ = "default"
         THEN ftas_ ELSE <<>>
    /\ TreesOf(uncertainty_analyses_) =
         IF prob_requested_ /\ settings_.fta_type_ = "mc"
         THEN ftas_ ELSE <<>>

\* The trees a and B, defined in the order B, a, got their fault tree and
\* uncertainty analyses in the order a, b, and no probability analysis.
C30_Witness ==
  /\ pc = "analyzed"
  /\ settings_.fta_type_ = "mc"
  /\ prob_requested_
  /\ ftas_ = << <<"a">>, <<"b">> >>
  /\ TreesOf(uncertainty_analyses_) = ftas_
  /\ prob_analyses_ = <<>>
  /\ fault_trees_[<<"b">>] # {}
  /\ fault_trees_[<<"a">>] = {}

-----------------------------------------------------------------------------
(* SpecMissionTime: the calls on a MissionTime object: construction and     *)
(* value(time) with negative and non-negative times, Sample() and Reset().  *)
(* written holds the calls in order.                                        *)

MaxCalls == 3

Times == (0 - 1)..MaxTime

InitMissionTime ==
  /\ InitRiskAnalysis
  /\ fta = NoFta
  /\ input = NoInput
  /\ settings_ = FixedSettings

\* The call is over: the object it leaves, the exception it threw, and its
\* entry in written.
Call(by, time, called) ==
  /\ Len(written) < MaxCalls
  /\ mission_time_' = called.object
  /\ error' = called.thrown
  /\ written' = Append(written, Written(by, time, "none", 0))
  /\ UNCHANGED <<gates_, tbd_gates_, primary_events_, basic_events_,
                 tbd_basic_events_, tbd_house_events_, tbd_events_,
                 tbd_orig_ids_, parameters_, tbd_parameters_, fault_trees_,
                 ccf_groups_, prob_requested_, setup_, ftas_, validated_,
                 orphan_primary_events_, report_level_,
                 settings_, prob_analyses_, uncertainty_analyses_, fta, heap,
                 pc, cur, last, seen, input>>

\* mission_time_ = new MissionTime(time): when the constructor throws, the
\* pointer keeps the object it had.
ConstructMissionTime(times) ==
  \E time \in times :
    LET new == MissionTime(time)
    IN  Call("MissionTime", time,
             IF new.thrown = NoError THEN new
             ELSE Called(new.thrown, mission_time_))

\* mission_time_->value(time)
SetValue(times) ==
  \E time \in times :
    Call("value", time, MissionTimeValue(mission_time_, time))

\* mission_time_->Sample()
SampleMissionTime ==
  \E keep \in BOOLEAN :
    Call("Sample", Sample(mission_time_),
         Called(NoError, Sampled(mission_time_, keep)))

\* mission_time_->Reset()
ResetMissionTime == Call("Reset", 0, Called(NoError, Reset(mission_time_)))

NextMissionTime ==
  \/ ConstructMissionTime(Times)
  \/ SetValue(Times)
  \/ SampleMissionTime
  \/ ResetMissionTime

SpecMissionTime == InitMissionTime /\ [][NextMissionTime]_vars

\* The calls of written that stored a time.
Stored == {i \in DOMAIN written :
             written[i].by \in {"MissionTime", "value"} /\ written[i].time >= 0}

\* The time stored last; 0, the time of MissionTime(), before any.
StoredValue ==
  IF Stored = {} THEN 0
  ELSE written[CHOOSE i \in Stored : \A j \in Stored : j <= i].time

\* A negative time is refused with a LogicError and the stored value is the
\* one stored last; Min() is 0 and not above Mean(); Mean() and DoSample()
\* are the stored value; the node is no deviate.
MissionTimeContract ==
  /\ (written # <<>> /\ written[Len(written)].by \in {"MissionTime", "value"})
       => (error.type = "LogicError" <=> written[Len(written)].time < 0)
  /\ mission_time_.value_ = StoredValue
  /\ MissionTimeMin(mission_time_) = 0
  /\ MissionTimeMin(mission_time_) <= Mean(mission_time_)
  /\ Mean(mission_time_) = mission_time_.value_
  /\ DoSample(mission_time_) = Mean(mission_time_)
  /\ ~IsDeviate(mission_time_)

SetSinceSampled ==
  \E i, j \in DOMAIN written :
    /\ i < j
    /\ written[i].by = "Sample"
    /\ j \in Stored
    /\ written[j].by = "value"
    /\ \A k \in DOMAIN written :
         k > i => ~(written[k].by = "Reset"
                      \/ (k \in Stored /\ written[k].by = "MissionTime"))

-----------------------------------------------------------------------------
(* Fault tree analysis (src/src/fault_tree_analysis.cc).  A literal is     *)
(* [event, complement]; a product is a set of literals; the products of an *)
(* analysis are a set of products.  The engine that computes the products  *)
(* of the top event is outside this file and follows the description of    *)
(* the minimal-cut-set engine: bottom-up propagation over a formula of     *)
(* AND, OR, literals and constants, with an order limit and                *)
(* minimalization.                                                         *)

Literal(event, complement) == [event |-> event, complement |-> complement]

\* A node of the normalized formula.
Node(op, literal, args) == [op |-> op, literal |-> literal, args |-> args]

NoLiteral == Literal(<<>>, FALSE)

\* A product with a literal and its complement.
Contradictory(product) ==
  \E l \in product : Literal(l.event, ~l.complement) \in product

\* Minimalization without effect.
MinimalizeNone(products) == products

\* Minimalization: a product with a strict subset in the set is removed.
Minimalize(products) ==
  {p \in products : ~\E q \in products : q \subseteq p /\ q # p}

\* The combination of two product sets under AND that keeps every order.
CombineAnyOrder(left, right, limit_order) ==
  Minimalize({p \in {l \cup r : l \in left, r \in right} : ~Contradictory(p)})

\* The combination of two product sets under AND: contradictory products
\* and products above the order limit are discarded.
Combine(left, right, limit_order) ==
  Minimalize({p \in {l \cup r : l \in left, r \in right} :
                ~Contradictory(p) /\ Cardinality(p) <= limit_order})

RECURSIVE Products(_, _)
RECURSIVE CombineAll(_, _, _)
\* The AND of the arguments from position i on.
CombineAll(args, i, limit_order) ==
  IF i = Len(args) THEN Products(args[i], limit_order)
  ELSE Combine(Products(args[i], limit_order),
               CombineAll(args, i + 1, limit_order), limit_order)

\* products(N) of the engine.
Products(node, limit_order) ==
  CASE node.op = "literal" -> {{node.literal}}
    [] node.op = "true" -> {{}}
    [] node.op = "false" -> {}
    [] node.op = "or" ->
         Minimalize(UNION {Products(node.args[i], limit_order) :
                             i \in DOMAIN node.args})
    [] node.op = "and" -> CombineAll(node.args, 1, limit_order)

\* Zbdd::empty(): no product.
ZbddEmpty(products) == products = {}

\* Zbdd::base(): the base set, which holds only the empty product.
ZbddBase(products) == products = {{}}

\* (literal.complement ? "~" : "") + literal.event.name()
LiteralId(literal) ==
  (IF literal.complement THEN <<"~">> ELSE <<>>) \o literal.event

RECURSIVE SortedIds(_)
\* boost::container::flat_set<std::string>: the ids in ascending order.
SortedIds(ids) ==
  IF ids = {} THEN <<>>
  ELSE <<FirstKey(ids)>> \o SortedIds(ids \ {FirstKey(ids)})

\* The ProductSet of a product.
ProductSet(product) == SortedIds({LiteralId(literal) : literal \in product})

RECURSIVE FlatSetLess(_, _)
\* operator< of flat_set: the lexicographic order of the sorted ids.
FlatSetLess(lhs, rhs) ==
  IF rhs = <<>> THEN FALSE
  ELSE IF lhs = <<>> THEN TRUE
  ELSE IF Head(lhs) # Head(rhs) THEN StringLess(Head(lhs), Head(rhs))
  ELSE FlatSetLess(Tail(lhs), Tail(rhs))

\* A comparison that leaves out the sizes.
ProductSetLessLexical(lhs, rhs) == FlatSetLess(lhs, rhs)

\* The comparison handed to boost::sort.
ProductSetLess(lhs, rhs) ==
  IF Len(lhs) = Len(rhs) THEN FlatSetLess(lhs, rhs) ELSE Len(lhs) < Len(rhs)

RECURSIVE Sort(_)
\* boost::sort(to_print, ...): the product sets in the order of the
\* comparison; among product sets it does not order, any of them is first.
Sort(to_print) ==
  IF to_print = {} THEN <<>>
  ELSE LET front == CHOOSE x \in to_print :
                      \A y \in to_print : ~ProductSetLess(y, x)
       IN  <<front>> \o Sort(to_print \ {front})

\* What Print writes to std::cerr, or the assertion that failed.
Output(text, distribution, lines, assertion) ==
  [text |-> text, distribution |-> distribution, lines |-> lines,
   assertion |-> assertion]

\* Print(products); begin is the product products.begin() points to.
PrintProducts(products, begin) ==
  IF products = {} THEN Output("No products!", <<>>, <<>>, "")
  ELSE IF begin = {}
  THEN IF Cardinality(products) # 1
       THEN Output("", <<>>, <<>>, "Unity case must have only one product.")
       ELSE Output("Single Unity product.", <<>>, <<>>, "")
  ELSE LET to_print == Sort({ProductSet(product) : product \in products})
           distribution ==
             [k \in 1..Len(to_print[Len(to_print)]) |->
                Cardinality({i \in DOMAIN to_print : Len(to_print[i]) = k})]
       IN  IF to_print[1] = <<>>
           THEN Output("", <<>>, <<>>, "Failure of the analysis with Unity!")
           ELSE Output("products", distribution, to_print, "")

NoOutput == Output("", <<>>, <<>>, "")

\* The analysis before Store: the top event, the settings, the build.
NewFaultTreeAnalysis(top_event_, limit_order, print, ndebug) ==
  [stage |-> "analysis", top_event_ |-> top_event_,
   limit_order |-> limit_order, print |-> print, ndebug |-> ndebug,
   products_ |-> {}, warnings_ |-> <<>>, cerr |-> NoOutput]

\* Store that warns about every set with the empty product.
StoreWarnAlways(a, products, begin) ==
  LET warnings_ ==
        IF ZbddEmpty(products)
        THEN Append(a.warnings_, "The top event is NULL. Success is guaranteed.")
        ELSE Append(a.warnings_, "The top event is UNITY. Failure is guaranteed.")
  IN  [a EXCEPT !.stage = "stored", !.warnings_ = warnings_,
                !.products_ = products]

\* FaultTreeAnalysis::Store(products, graph); begin is the product the
\* iteration over the container starts with.
Store(a, products, begin) ==
  LET warnings_ ==
        IF ZbddEmpty(products)
        THEN Append(a.warnings_, "The top event is NULL. Success is guaranteed.")
        ELSE IF ZbddBase(products)
        THEN Append(a.warnings_, "The top event is UNITY. Failure is guaranteed.")
        ELSE a.warnings_
      stored == [a EXCEPT !.stage = "stored", !.warnings_ = warnings_,
                          !.products_ = products]
  IN  IF a.ndebug THEN stored
      ELSE IF \E product \in products : Cardinality(product) > a.limit_order
      THEN [stored EXCEPT
              !.cerr = Output("", <<>>, <<>>,
                              "Miscalculated product sets with larger-than-required order.")]
      ELSE IF a.print THEN [stored EXCEPT !.cerr = PrintProducts(products, begin)]
      ELSE stored

MaxOrder == 2

\* The leaves of the formulas analysed.
Leaves ==
  {Node("literal", Literal(<<e>>, c), <<>>) :
     e \in {"a", "b", "c"}, c \in {FALSE}}
  \cup {Node("literal", Literal(<<"a">>, TRUE), <<>>),
        Node("true", NoLiteral, <<>>)}

\* AND and OR of two formulas.
Gates(formulas) ==
  {Node(op, NoLiteral, <<l, r>>) : op \in {"and", "or"},
                                  l \in formulas, r \in formulas}

\* The formulas analysed: up to two levels of gates over the leaves.
Formulas == Leaves \cup Gates(Leaves) \cup Gates(Leaves \cup Gates(Leaves))

InitStore ==
  /\ InitRiskAnalysis
  /\ settings_ = FixedSettings
  /\ input = NoInput
  /\ fta \in {NewFaultTreeAnalysis(top_event_, limit_order, print, ndebug) :
                top_event_ \in Formulas, limit_order \in 1..MaxOrder,
                print \in BOOLEAN, ndebug \in BOOLEAN}

\* The analysis of the top event ends: its products are handed to Store.
StoreProducts ==
  /\ fta.stage = "analysis"
  /\ LET products == Products(fta.top_event_, fta.limit_order)
     IN  \E begin \in IF products = {} THEN {{}} ELSE products :
           fta' = Store(fta, products, begin)
  /\ UNCHANGED <<gates_, tbd_gates_, primary_events_, basic_events_,
                 tbd_basic_events_, tbd_house_events_, tbd_events_,
                 tbd_orig_ids_, parameters_, tbd_parameters_, fault_trees_,
                 ccf_groups_, prob_requested_, setup_, ftas_, validated_,
                 orphan_primary_events_, report_level_,
                 settings_, mission_time_, written, prob_analyses_,
                 uncertainty_analyses_, heap, error, pc, cur, last, seen,
                 input>>

NextStore == StoreProducts

SpecStore == InitStore /\ [][NextStore]_vars

\* C23: Store treats the special outcomes as warnings: exactly one warning
\* for the empty product set (NULL), exactly one for the base set (UNITY),
\* none otherwise, and in all three cases the products are stored as the
\* result of the analysis.
C23_StoreWarnings ==
  fta.stage = "stored" =>
    LET products == Products(fta.top_event_, fta.limit_order)
    IN  /\ fta.products_ = products
        /\ products = {} =>
             fta.warnings_ = <<"The top event is NULL. Success is guaranteed.">>
        /\ products = {{}} =>
             fta.warnings_ = <<"The top event is UNITY. Failure is guaranteed.">>
        /\ (products # {} /\ products # {{}}) => fta.warnings_ = <<>>

\* An analysis stored the base set with the warning about UNITY.
C23_Witness ==
  /\ fta.stage = "stored"
  /\ fta.products_ = {{}}
  /\ Len(fta.warnings_) = 1
  /\ fta.top_event_.op = "or"

\* C24: every product stored by Store has at most limit_order literals: the
\* assertion of Store does not fail.
C24_LimitOrder ==
  fta.stage = "stored" =>
    /\ \A product \in fta.products_ : Cardinality(product) <= fta.limit_order
    /\ fta.cerr.assertion #
         "Miscalculated product sets with larger-than-required order."

\* With the order limit 1 the analysis of c OR (a AND b) stored c alone, in
\* a build with assertions.
C24_Witness ==
  /\ fta.stage = "stored"
  /\ ~fta.ndebug
  /\ fta.limit_order = 1
  /\ fta.top_event_.op = "or"
  /\ fta.top_event_.args[2].op = "and"
  /\ fta.top_event_.args[2].args[1].literal = Literal(<<"a">>, FALSE)
  /\ fta.top_event_.args[2].args[2].literal = Literal(<<"b">>, FALSE)
  /\ fta.products_ = {{Literal(<<"c">>, FALSE)}}

\* C25: no product of the stored container is a superset of another; a
\* container with the empty product (UNITY) holds that product alone, and
\* no assertion of the printing fails.
C25_NoSupersets ==
  fta.stage = "stored" =>
    /\ \A p, q \in fta.products_ : p \subseteq q => p = q
    /\ {} \in fta.products_ => Cardinality(fta.products_) = 1
    /\ fta.cerr.assertion \notin {"Unity case must have only one product.",
                                  "Failure of the analysis with Unity!"}

\* The products of a OR TRUE were printed as the single unity product.
C25_Witness ==
  /\ fta.stage = "stored"
  /\ fta.print
  /\ ~fta.ndebug
  /\ fta.top_event_.op = "or"
  /\ fta.top_event_.args[1].op = "literal"
  /\ fta.top_event_.args[2].op = "true"
  /\ fta.cerr.text = "Single Unity product."

RECURSIVE SumOf(_)
SumOf(numbers) ==
  IF numbers = <<>> THEN 0 ELSE Head(numbers) + SumOf(Tail(numbers))

\* Sequence l comes before sequence r of the same length in the
\* lexicographic order of their strings.
LexicallyBefore(l, r) ==
  \E k \in DOMAIN l :
    /\ \A i \in 1..(k - 1) : l[i] = r[i]
    /\ StringLess(l[k], r[k])

\* C26: the products are printed in canonical order: by size ascending,
\* products of equal size in the lexicographic order of their sorted literal
\* names; every product is printed once; the size distribution has at index
\* k the number of products with exactly k literals and sums to the number
\* of products.
C26_CanonicalOrder ==
  (fta.stage = "stored" /\ fta.cerr.text = "products") =>
    LET lines == fta.cerr.lines
        distribution == fta.cerr.distribution
    IN  /\ \A i, j \in DOMAIN lines :
             i < j =>
               /\ Len(lines[i]) <= Len(lines[j])
               /\ Len(lines[i]) = Len(lines[j]) =>
                    LexicallyBefore(lines[i], lines[j])
        /\ \A i \in DOMAIN lines :
             \A k \in 1..(Len(lines[i]) - 1) :
               StringLess(lines[i][k], lines[i][k + 1])
        /\ Len(lines) = Cardinality(fta.products_)
        /\ {{lines[i][k] : k \in DOMAIN lines[i]} : i \in DOMAIN lines} =
             {{LiteralId(literal) : literal \in product} :
                product \in fta.products_}
        /\ \A k \in DOMAIN distribution :
             distribution[k] =
               Cardinality({product \in fta.products_ : Cardinality(product) = k})
        /\ SumOf(distribution) = Cardinality(fta.products_)

\* The four products of (a OR ~a) AND (b OR c), all of two literals, were
\* printed in the order {a, b}, {a, c}, {b, ~a}, {c, ~a}.
C26_Witness ==
  /\ fta.stage = "stored"
  /\ fta.cerr.text = "products"
  /\ fta.cerr.lines = << <<(<<"a">>), (<<"b">>)>>, <<(<<"a">>), (<<"c">>)>>,
                         <<(<<"b">>), (<<"~", "a">>)>>,
                         <<(<<"c">>), (<<"~", "a">>)>> >>
  /\ fta.cerr.distribution = <<0, 4>>

-----------------------------------------------------------------------------
(* Product::p (src/src/fault_tree_analysis.cc).  The probabilities are     *)
(* doubles: a double other than 0 is [m, e], m the 53 bits of its           *)
(* significand, lowest bit first, and e the exponent of the lowest bit;     *)
(* its value is m * 2^e.  Products and differences are computed exactly on  *)
(* sequences of bits and rounded to the nearest double, ties to even, as    *)
(* the hardware does.  Subnormal numbers and overflow do not occur for      *)
(* products of a few probabilities.                                         *)

\* The bits of the significand of a double.
Precision == 53

\* Bit i of a natural number given by its bits, lowest first.
BitAt(n, i) == IF i \in DOMAIN n THEN n[i] ELSE 0

\* The number without the zeros above its highest bit.
Strip(n) ==
  LET ones == {i \in DOMAIN n : n[i] = 1}
  IN  IF ones = {} THEN <<>>
      ELSE SubSeq(n, 1, CHOOSE i \in ones : \A k \in ones : k <= i)

Zeros(k) == [i \in 1..k |-> 0]

\* The bits of a limb: the numbers are multiplied in limbs of LimbBits bits.
LimbBits == Precision \div 4

RECURSIVE SumTo(_, _)
\* term(1) + ... + term(k)
SumTo(term, k) == IF k = 0 THEN 0 ELSE term[k] + SumTo(term, k - 1)

\* The limbs of a number given by its bits, lowest first.
ToLimbs(n) ==
  [j \in 1..((Len(n) + LimbBits - 1) \div LimbBits) |->
     SumTo([t \in 1..LimbBits |->
              BitAt(n, LimbBits * (j - 1) + t) * 2^(t - 1)], LimbBits)]

\* The bits of a number given by its limbs.
ToBits(limbs) ==
  [i \in 1..(LimbBits * Len(limbs)) |->
     (limbs[(i - 1) \div LimbBits + 1] \div 2^((i - 1) % LimbBits)) % 2]

RECURSIVE Carry(_, _, _, _)
\* The limbs of the number whose limb k, before the carries, is digits[k].
Carry(digits, k, carry, limbs) ==
  IF k > Len(digits) /\ carry = 0 THEN limbs
  ELSE LET total == (IF k <= Len(digits) THEN digits[k] ELSE 0) + carry
       IN  Carry(digits, k + 1, total \div 2^LimbBits,
                 Append(limbs, total % 2^LimbBits))

\* a * b, exactly.
MulBits(a, b) ==
  LET x == ToLimbs(a)
      y == ToLimbs(b)
      digits == [k \in 1..(Len(x) + Len(y)) |->
                   SumTo([i \in 1..Len(x) |->
                            IF k + 1 - i \in DOMAIN y
                            THEN x[i] * y[k + 1 - i] ELSE 0], Len(x))]
  IN  Strip(ToBits(Carry(digits, 1, 0, <<>>)))

\* n + 1
Inc(n) ==
  LET zeros == {i \in DOMAIN n : n[i] = 0}
      first == IF zeros = {} THEN Len(n) + 1
               ELSE CHOOSE i \in zeros : \A k \in zeros : i <= k
  IN  [i \in 1..(IF zeros = {} THEN Len(n) + 1 ELSE Len(n)) |->
         IF i < first THEN 0 ELSE IF i = first THEN 1 ELSE n[i]]

\* 2^k - b, exactly, for 0 < b < 2^k.
PowerMinus(k, b) == Strip(Inc([i \in 1..k |-> 1 - BitAt(b, i)]))

Zero == [m |-> <<>>, e |-> 0]

\* The double nearest to n * 2^s, ties to the even significand.
RoundBits(n, s) ==
  LET bits == Strip(n)
      drop == Len(bits) - Precision
  IN  IF bits = <<>> THEN Zero
      ELSE IF drop <= 0 THEN [m |-> Zeros(0 - drop) \o bits, e |-> s + drop]
      ELSE LET kept == SubSeq(bits, drop + 1, Len(bits))
               sticky == \E i \in 1..(drop - 1) : bits[i] = 1
               up == bits[drop] = 1 /\ (sticky \/ kept[1] = 1)
               rounded == IF up THEN Inc(kept) ELSE kept
           IN  IF Len(rounded) > Precision
               THEN [m |-> SubSeq(rounded, 2, Len(rounded)), e |-> s + drop + 1]
               ELSE [m |-> rounded, e |-> s + drop]

\* x * y in double arithmetic.
Mul(x, y) ==
  IF x = Zero \/ y = Zero THEN Zero
  ELSE RoundBits(MulBits(x.m, y.m), x.e + y.e)

\* 1 - x in double arithmetic, for 0 <= x <= 1.
OneMinus(x) ==
  IF x = Zero THEN RoundBits(<<1>>, 0)
  ELSE IF x.e = 1 - Precision THEN Zero
  ELSE RoundBits(PowerMinus(0 - x.e, x.m), x.e)

HexDigit(d) == <<d % 2, (d \div 2) % 2, (d \div 4) % 2, (d \div 8) % 2>>

RECURSIVE HexBits(_)
\* The bits of the number written with the hexadecimal digits, highest first.
HexBits(digits) ==
  IF digits = <<>> THEN <<>>
  ELSE HexBits(Tail(digits)) \o HexDigit(Head(digits))

\* The double with the significand written in hexadecimal and the exponent
\* e of its lowest bit.
Double(digits, e) == [m |-> Strip(HexBits(digits)), e |-> e]

\* The doubles nearest to 0.1, 0.2 and 0.3, and 0.5 and 1.
Tenth == Double(<<1, 9, 9, 9, 9, 9, 9, 9, 9, 9, 9, 9, 9, 10>>, 0 - 56)
Fifth == Double(<<1, 9, 9, 9, 9, 9, 9, 9, 9, 9, 9, 9, 9, 10>>, 0 - 55)
ThreeTenths == Double(<<1, 3, 3, 3, 3, 3, 3, 3, 3, 3, 3, 3, 3, 3>>, 0 - 54)
Half == Double(<<1, 0, 0, 0, 0, 0, 0, 0, 0, 0, 0, 0, 0, 0>>, 0 - 53)
One == RoundBits(<<1>>, 0)

\* The probability of the event of a literal, or of its complement.
LiteralP(literal, p) ==
  IF literal.complement THEN OneMinus(p[literal.event]) ELSE p[literal.event]

RECURSIVE ProductLoop(_, _, _)
\* The loop of Product::p over the literals left, in the order of the
\* iteration; p maps each event to its probability.
ProductLoop(result, literals, p) ==
  IF literals = <<>> THEN result
  ELSE ProductLoop(Mul(result, LiteralP(Head(literals), p)), Tail(literals), p)

\* A product that takes every literal as plain.
ProductPlain(literals, p) ==
  ProductLoop(One, [i \in DOMAIN literals |->
                      Literal(literals[i].event, FALSE)], p)

\* Product::p(): double p = 1, multiplied by the probability of each literal.
ProductP(literals, p) == ProductLoop(One, literals, p)

-----------------------------------------------------------------------------
(* SpecProduct: the products of up to three literals over the events a, b  *)
(* and c, plain or complemented, visited in every order, with the          *)
(* probabilities 0, 0.1, 0.2, 0.3 and 1.                                    *)

ProductEvents == {<<"a">>, <<"b">>, <<"c">>}

\* The literals of a product in the order of the iteration: no event twice.
ProductsInOrder ==
  UNION {{literals \in [1..n -> {Literal(event, complement) :
                                    event \in ProductEvents,
                                    complement \in BOOLEAN}] :
            \A i, j \in 1..n : i # j => literals[i].event # literals[j].event} :
         n \in 0..Cardinality(ProductEvents)}

InitProduct ==
  /\ InitRiskAnalysis
  /\ settings_ = FixedSettings
  /\ input = NoInput
  /\ fta \in [stage : {"product"}, literals : ProductsInOrder,
              event_p : [ProductEvents -> {Zero, Tenth, Fifth, ThreeTenths, One}],
              p : {Zero}]

\* product.p() is called.
ComputeP ==
  /\ fta.stage = "product"
  /\ fta' = [fta EXCEPT !.stage = "p", !.p = ProductP(fta.literals, fta.event_p)]
  /\ UNCHANGED <<gates_, tbd_gates_, primary_events_, basic_events_,
                 tbd_basic_events_, tbd_house_events_, tbd_events_,
                 tbd_orig_ids_, parameters_, tbd_parameters_, fault_trees_,
                 ccf_groups_, prob_requested_, setup_, ftas_, validated_,
                 orphan_primary_events_, report_level_,
                 settings_, mission_time_, written, prob_analyses_,
                 uncertainty_analyses_, heap, error, pc, cur, last, seen,
                 input>>

NextProduct == ComputeP

SpecProduct == InitProduct /\ [][NextProduct]_vars

RECURSIVE ProductOf(_, _)
\* The product of the probabilities of the literals: 1 for none, else the
\* product of all but the last, times the last.
ProductOf(literals, p) ==
  IF literals = <<>> THEN One
  ELSE Mul(ProductOf(SubSeq(literals, 1, Len(literals) - 1), p),
           IF literals[Len(literals)].complement
           THEN OneMinus(p[literals[Len(literals)].event])
           ELSE p[literals[Len(literals)].event])

\* The literals visited in every order.
Reordered(literals) ==
  {[i \in DOMAIN literals |-> literals[order[i]]] :
     order \in Permutations(DOMAIN literals)}

\* p() is the product of the probabilities of the literals, 1 - p(event)
\* for a complement, and 1 for the empty product.
ProductOfLiterals ==
  /\ fta.p = ProductOf(fta.literals, fta.event_p)
  /\ fta.literals = <<>> => fta.p = One

\* C31, as stated: p(product) is the product of the probabilities of its
\* literals, 1 for the empty product, and the same in whatever order the
\* literals are visited.
C31_ProductAnyOrder ==
  fta.stage = "p" =>
    /\ ProductOfLiterals
    /\ \A literals \in Reordered(fta.literals) :
         ProductP(literals, fta.event_p) = fta.p

\* C31, amended: as stated, but the order of the literals is immaterial only
\* for products of at most two literals; the result of a longer product is
\* rounded after every multiplication and can depend on the order.
C31_ProductInOrder ==
  fta.stage = "p" =>
    /\ ProductOfLiterals
    /\ Len(fta.literals) <= 2 =>
         \A literals \in Reordered(fta.literals) :
           ProductP(literals, fta.event_p) = fta.p

\* p() of the product ~a b with p(a) = 0.1 and p(b) = 0.3 is the double
\* nearest to 0.9 * 0.3.
C31_Witness ==
  /\ fta.stage = "p"
  /\ fta.literals = <<Literal(<<"a">>, TRUE), Literal(<<"b">>, FALSE)>>
  /\ fta.event_p[<<"a">>] = Tenth
  /\ fta.event_p[<<"b">>] = ThreeTenths
  /\ fta.p = Double(<<1, 1, 4, 7, 10, 14, 1, 4, 7, 10, 14, 1, 4, 8>>, 0 - 54)
-----------------------------------------------------------------------------
(* SpecParamNames: the parameter p, defined and referenced as "p" and as   *)
(* "p " with a trailing blank.                                             *)

NextParamNames ==
  \/ BeginInputFiles
  \/ BeginFaultTree({<<"f">>})
  \/ EndFaultTree
  \/ ParameterDefinition({<<"p">>, <<"p", " ">>, <<"q">>},
                         {Float, Parameter(<<"p">>), Parameter(<<"p", " ">>)})
  \/ BasicEventDefinition({<<"b">>, <<"c">>},
                          {Parameter(<<"p">>), Parameter(<<"p", " ">>)}, {""})
  \/ EndOfInput

SpecParamNames == Init /\ [][NextParamNames]_vars

\* C34: a reference to a parameter and its definition denote the same
\* parameter whenever their names are equal after trimming: the parameters
\* are kept under their trimmed names, and no reference is left in
\* tbd_parameters_ while the parameter of its trimmed name is defined.
C34_TrimmedParameters ==
  /\ \A name \in DOMAIN parameters_ : name = trim(name)
  /\ \A name \in DOMAIN tbd_parameters_ : ~Count(parameters_, trim(name))
-----------------------------------------------------------------------------
(* SpecRuns: the models of SpecResults, analyzed up to MaxRuns times.      *)

NextRuns ==
  \/ NextResults
  \/ AnalyzeAgain

SpecRuns == InitResults /\ [][NextRuns]_vars

\* C39: the results of an analysis do not carry over to the next one: after
\* every call of Analyze ftas_ holds one result
\* for each fault tree of the model, in the order of the trees, and the
\* probability and the uncertainty analyses hold no more than that, however
\* many times Analyze was called before.
C39_ResultsOfLastRun ==
  pc = "analyzed" =>
    /\ Len(ftas_) = Size(fault_trees_)
    /\ {ftas_[i] : i \in DOMAIN ftas_} = DOMAIN fault_trees_
    /\ Len(prob_analyses_) <= Size(fault_trees_)
    /\ Len(uncertainty_analyses_) <= Size(fault_trees_)
-----------------------------------------------------------------------------
(* SpecLogger: calls of Logger::SetVerbosity with levels from LevelMargin  *)
(* below 0 to LevelMargin above kMaxVerbosity.                             *)

LevelMargin == 3

Levels == (0 - LevelMargin)..(kMaxVerbosity + LevelMargin)

InitLogger ==
  /\ InitRiskAnalysis
  /\ fta = NoFta
  /\ input = NoInput
  /\ settings_ = FixedSettings

\* Logger::SetVerbosity(level) is called; last keeps the level handed over
\* and the report level the call found.
SetVerbosityCall ==
  /\ \E level \in Levels :
       LET set == SetVerbosity(report_level_, level)
       IN  /\ report_level_' = set.object
           /\ error' = set.thrown
           /\ last' = Last("SetVerbosity", <<>>, level, "none",
                           [report_level_ |-> report_level_])
  /\ UNCHANGED <<gates_, tbd_gates_, primary_events_, basic_events_,
                 tbd_basic_events_, tbd_house_events_, tbd_events_,
                 tbd_orig_ids_, parameters_, tbd_parameters_, fault_trees_,
                 ccf_groups_, prob_requested_, setup_, ftas_, validated_,
                 orphan_primary_events_, settings_, mission_time_, written,
                 prob_analyses_, uncertainty_analyses_, fta, heap, pc, cur,
                 seen, input>>

NextLogger == SetVerbosityCall

SpecLogger == InitLogger /\ [][NextLogger]_vars

\* C40: Logger::SetVerbosity(level) sets the report level to level when
\* 0 <= level <= kMaxVerbosity, and otherwise fails with InvalidArgument and
\* leaves the report level as it was; the report level, ERROR before the
\* first call, is always within 0..kMaxVerbosity.
C40_VerbosityInRange ==
  /\ report_level_ \in 0..kMaxVerbosity
  /\ last.op = "none" => report_level_ = ERROR
  /\ last.op = "SetVerbosity" =>
       IF 0 <= last.id /\ last.id <= kMaxVerbosity
       THEN report_level_ = last.id /\ error = NoError
       ELSE /\ report_level_ = last.known.report_level_
            /\ error.type = "InvalidArgument"

\* The report level was raised to kMaxVerbosity, and the call with the level
\* above it was refused.
C40_Witness ==
  /\ last.op = "SetVerbosity"
  /\ last.id = kMaxVerbosity + 1
  /\ error.type = "InvalidArgument"
  /\ report_level_ = kMaxVerbosity
  /\ report_level_ # ERROR

====
